------------------------------ MODULE CoreStore -------------------------------
(***************************************************************************)
(* state/core_store.py: one file per identity, created with O_EXCL, written *)
(* and synchronised by the process that created it, and read by the ones    *)
(* that lost.  Several processes append; one of them may die, and a write   *)
(* or a synchronisation may fail.                                           *)
(***************************************************************************)
EXTENDS Integers, FiniteSets

CONSTANTS
  Process,      \* processes that append
  Identity,     \* identities of records
  Payload,      \* payloads, told apart by their digests
  NoPayload,
  MaxFailures   \* bound: failed writes and dead processes

ASSUME CoreStoreAssumption == NoPayload \notin Payload /\ MaxFailures \in Nat

VARIABLES
  record,       \* the file of every identity
  op,         \* the append() every process is in
  appended,     \* history: the payloads append() reported as appended
  answered,     \* history: the payloads append() reported as stored
  failures

coreStoreVars == <<record, op, appended, answered, failures>>

Absent == [at |-> "absent", payload |-> NoPayload]

NoAppend == [at |-> "idle"]

At(p, place) == op[p].at = place

Enters(p, place) == op' = [op EXCEPT ![p].at = place]

Returns(p) == op' = [op EXCEPT ![p] = NoAppend]

Fails == failures < MaxFailures /\ failures' = failures + 1

\* The file of the identity p appends under.
File(p) == record[op[p].identity]

FileIs(p, state) == record' = [record EXCEPT ![op[p].identity] = state]

Holding(p, state) == [at |-> state, payload |-> op[p].payload]

-----------------------------------------------------------------------------
\* _scan_by_digest() reads every record, and fails on a partial one.
Supersedable(d) ==
  /\ \A i \in Identity : record[i].at # "partial"
  /\ \E i \in Identity : record[i] = [at |-> "whole", payload |-> d]

Appends(p, i, d, supersedes) ==
  /\ At(p, "idle")
  /\ supersedes # NoPayload => Supersedable(supersedes)
  /\ op' = [op EXCEPT ![p] = [at |-> "create", identity |-> i, payload |-> d]]
  /\ UNCHANGED <<record, appended, answered, failures>>

\* Mutant: the file is opened without O_EXCL.
CreatesOver(p) ==
  /\ At(p, "create")
  /\ FileIs(p, Holding(p, "partial")) /\ Enters(p, "write")
  /\ UNCHANGED <<appended, answered, failures>>

\* O_CREAT|O_EXCL decides the winner.
Creates(p) ==
  /\ At(p, "create") /\ File(p) = Absent
  /\ FileIs(p, Holding(p, "partial")) /\ Enters(p, "write")
  /\ UNCHANGED <<appended, answered, failures>>

Loses(p) ==
  /\ At(p, "create") /\ File(p) # Absent /\ Enters(p, "read")
  /\ UNCHANGED <<record, appended, answered, failures>>

Writes(p) ==
  /\ At(p, "write")
  /\ FileIs(p, Holding(p, "whole")) /\ Enters(p, "sync")
  /\ UNCHANGED <<appended, answered, failures>>

\* The winner withdraws its own file: write, flush or fsync failed.
Withdraws(p) ==
  /\ At(p, "write") \/ At(p, "sync")
  /\ Fails /\ FileIs(p, Absent) /\ Returns(p)
  /\ UNCHANGED <<appended, answered>>

\* The directory is synchronised, or is not: the file stays either way.
Syncs(p) ==
  /\ At(p, "sync") /\ Returns(p)
  /\ \/ /\ appended' = [appended EXCEPT ![op[p].identity] = @ \cup {op[p].payload}]
        /\ answered' = [answered EXCEPT ![op[p].identity] = @ \cup {op[p].payload}]
        /\ UNCHANGED failures
     \/ Fails /\ UNCHANGED <<appended, answered>>
  /\ UNCHANGED record

\* _read_verified, _render_loser: the record decides between a re-delivery and a
\* conflict; a partial one fails the op when the retries are over.
Reads(p) ==
  /\ At(p, "read") /\ File(p) # Absent /\ Returns(p)
  /\ answered' = IF File(p) = Holding(p, "whole")
                   THEN [answered EXCEPT ![op[p].identity] = @ \cup {op[p].payload}]
                   ELSE answered
  /\ UNCHANGED <<record, appended, failures>>

\* The winner withdrew: once more, or not_found.
Misses(p) ==
  /\ At(p, "read") /\ File(p) = Absent
  /\ Enters(p, "create") \/ Returns(p)
  /\ UNCHANGED <<record, appended, answered, failures>>

\* The process dies; what it wrote so far stays.
AppenderDies(p) ==
  /\ ~At(p, "idle") /\ Fails /\ Returns(p)
  /\ UNCHANGED <<record, appended, answered>>

-----------------------------------------------------------------------------
CoreStoreInit ==
  /\ record = [i \in Identity |-> Absent]
  /\ op = [p \in Process |-> NoAppend]
  /\ appended = [i \in Identity |-> {}] /\ answered = [i \in Identity |-> {}]
  /\ failures = 0

CoreStoreNext == \E p \in Process :
  \/ \E i \in Identity, d \in Payload, s \in Payload \cup {NoPayload} : Appends(p, i, d, s)
  \/ Creates(p) \/ Loses(p) \/ Writes(p) \/ Withdraws(p) \/ Syncs(p) \/ Reads(p) \/ Misses(p)
  \/ AppenderDies(p)

CoreStoreSpec == CoreStoreInit /\ [][CoreStoreNext]_coreStoreVars

-----------------------------------------------------------------------------
(* Properties *)

\* What append() reported as appended is the one payload of its identity, and is
\* on disk, whatever other processes append, withdraw or leave half written.
AppendedIsFrozen ==
  \A i \in Identity : \A d \in appended[i] : record[i] = [at |-> "whole", payload |-> d]

\* The same for a re-delivery.
AnsweredIsStored ==
  \A i \in Identity : \A d \in answered[i] : record[i] = [at |-> "whole", payload |-> d]

\* The invariant behind AppendedIsFrozen: the process that writes an identity is
\* the only one, and nobody was told yet that its record is appended.
Writing(p) == At(p, "write") \/ At(p, "sync")

SoleWriter ==
  \A p \in Process : Writing(p) =>
    /\ File(p) = Holding(p, IF At(p, "write") THEN "partial" ELSE "whole")
    /\ appended[op[p].identity] = {}
    /\ \A q \in Process \ {p} : Writing(q) => op[q].identity # op[p].identity

CoreStoreInv == SoleWriter /\ AppendedIsFrozen

=============================================================================
