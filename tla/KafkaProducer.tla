---------------------------- MODULE KafkaProducer ----------------------------
(***************************************************************************)
(* The producer that the callers of getProducer (messaging/kafka.ts) share *)
(* within a process. The first caller puts it into producerInstance and    *)
(* awaits its connect; every other caller is given the instance as it is.  *)
(* KafkaJS itself is external: connect returns, or throws after its own    *)
(* retries, and send throws unless connect has returned.                   *)
(*                                                                         *)
(* Each operator is one caller's step; the module that uses it says where  *)
(* the caller goes.                                                        *)
(***************************************************************************)
VARIABLE producer

States == {"none", "connecting", "connected", "unusable"}

Unopened == producer = "none"

Opened == producer' = "connecting"

Connected == producer' = "connected"

\* The instance stays where it is: nothing connects it again.
ConnectFailed == producer' = "unusable"

\* The process ends.
Gone == producer' = "none"

CanSend == producer = "connected"
=============================================================================
