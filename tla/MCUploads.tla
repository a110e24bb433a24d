----------------------------- MODULE MCUploads -----------------------------
EXTENDS Uploads

CONSTANTS f1

OneFile    == [u \in Uploads |-> f1]
FullConfig == [slots |-> 2, rate |-> 1, enabled |-> TRUE]
SlowConfig == [slots |-> 1, rate |-> 1, enabled |-> TRUE]
=============================================================================
