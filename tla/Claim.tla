------------------------------- MODULE Claim -------------------------------
(***************************************************************************)
(* CheckpointRepository.claim_operation: how an operation is admitted to   *)
(* the checkpoint row of its entity.  A row has an owner, a lease that is  *)
(* live or not, and a status; what else it holds is the entity's affair.   *)
(***************************************************************************)

CONSTANTS
  NoOp,           \* operation_id is None
  Anon            \* the uuid4 drawn by the server for operation_id None

Unfinished(cp) == cp.status \in {"running", "failed"}

\* Faults a claim could have (each one is the definition below it, altered):
\* the fence is never or only lifted by time, a completion is replayed to
\* whoever asks.
RefusesExpired(cp, o) == Unfinished(cp) /\ cp.owner # o /\ ~cp.live
RefusesForever(cp, o) == Unfinished(cp) /\ cp.owner # o
ReplaysToAll(cp, o) == cp.status = "completed" /\ o # NoOp

Refuses(cp, o) == Unfinished(cp) /\ cp.owner # o /\ cp.live

Replays(cp, o) == cp.status = "completed" /\ cp.owner = o

\* totals.operation_id: a missing id is drawn by the server.
OwnerFor(o) == IF o = NoOp THEN Anon ELSE o
=============================================================================
