---------------------------- MODULE ProductSweep ----------------------------
(***************************************************************************)
(* What the checkpointed product synchronisation promises, without the     *)
(* requests, locks and transactions that bring it about: one sweep over    *)
(* the pages of the catalogue at a time, owned by one operation, advanced  *)
(* by whole batches and resumed where the last batch stopped.              *)
(***************************************************************************)
EXTENDS Naturals

CONSTANTS Op, Anon, Nobody, MaxPage, PagesPerBatch

VARIABLES
  owner,    \* the operation the sweep belongs to
  live,     \* the lease of the owner has not expired
  status,   \* "none", "open" or "closed"
  done,     \* pages of the sweep that are finished
  pages,    \* pages whose products are stored since the sweep began
  finished  \* operations that have swept the catalogue to its end

sweepVars == <<owner, live, status, done, pages, finished>>

Operation == Op \cup {Anon}

SweepInit ==
  /\ owner = Nobody /\ live = FALSE /\ status = "none"
  /\ done = 0 /\ pages = {} /\ finished = {}

\* Operation o processes n pages after the first `from` ones.
Advance(o, from, n) ==
  /\ from + n <= MaxPage
  /\ owner' = o /\ live' = TRUE
  /\ done' = from + n
  /\ pages' = 1 .. from + n
  /\ \/ status' = "open" /\ from + n < MaxPage /\ UNCHANGED finished
     \/ status' = "closed" /\ n > 0 /\ finished' = finished \cup ({o} \ {Anon})

\* A new sweep begins only where none is open, and an operation that has just
\* closed one is not made to sweep again.
Begin(o) ==
  /\ status # "open"
  /\ status = "closed" /\ owner = o => o = Anon
  /\ \E n \in 0 .. PagesPerBatch : Advance(o, 0, n)

\* An open sweep is resumed by its owner, or taken over once the lease is over.
\* It goes on at the page where it stopped.
Resume(o) ==
  /\ status = "open"
  /\ live => owner = o /\ o # Anon
  /\ \E n \in 0 .. PagesPerBatch : Advance(o, done, n)

Expire ==
  /\ live /\ live' = FALSE
  /\ UNCHANGED <<owner, status, done, pages, finished>>

SweepNext == Expire \/ \E o \in Operation : Begin(o) \/ Resume(o)

SweepSpec == SweepInit /\ [][SweepNext]_sweepVars
=============================================================================
