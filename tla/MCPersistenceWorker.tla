------------------------ MODULE MCPersistenceWorker ------------------------
(* Small instances of PersistenceWorker for TLC. *)
EXTENDS PersistenceWorker

FlushOnly == {"flush"}
BothKinds == ControlKinds
WriteFaults == {"db", "ack"}
ReadFaults == {"read"}
AllFaults == FaultKinds
AckFaults == {"ack"}
=============================================================================
