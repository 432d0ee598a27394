-------------------------- MODULE MCSerialUploader --------------------------
(***************************************************************************)
(* Instances of SerialUploader: one event, two, one that cannot be         *)
(* serialized, and an array that is larger than the queue.                 *)
(***************************************************************************)
EXTENDS SerialUploader

MCArrays == {<<TRUE>>, <<TRUE, TRUE>>, <<FALSE, TRUE>>, <<FALSE>>, <<TRUE, TRUE, TRUE>>}
MCFewArrays == {<<TRUE>>}
=============================================================================
