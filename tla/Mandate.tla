------------------------------ MODULE Mandate -------------------------------
(***************************************************************************)
(* cortxt_mcp/mandate.py, nonce_store.py and revocation_store.py: what the *)
(* server checks before a Tier-1 tool runs.                                *)
(*                                                                         *)
(* One server process at a time, as nonce_store.py says; it may die after  *)
(* any durable write.  The used nonces and the spend are files; the        *)
(* snapshot of the revocation file is memory, and an operator replaces the *)
(* file at any time.  An envelope without a known key or with a bad        *)
(* signature is refused like a revoked one: it changes the snapshot only.  *)
(***************************************************************************)
EXTENDS Integers

CONSTANTS
  SigningKey,   \* signing keys: a granted_by with a kid
  MandateId,    \* mandates
  Envelope,     \* signed envelopes: [id, key, nonce, expires]
  Cap,          \* budget_usd_max of every mandate
  Cost,         \* costs a call may be estimated at
  Refresh,      \* refresh_interval_seconds
  Freshness,    \* freshness_seconds
  MaxNow,       \* bound: the last instant
  MaxStamp,     \* bound: publications of the revocation file
  MaxLosses     \* bound: how often each of the two registers reads as empty

ASSUME MandateAssumption ==
  /\ {Refresh, Freshness, MaxNow, MaxStamp, MaxLosses} \subseteq Nat /\ Cost \subseteq Nat
  /\ Cap \in [MandateId -> Nat]
  /\ \A e \in Envelope : e.id \in MandateId /\ e.key \in SigningKey /\ e.expires \in Nat

VARIABLES
  clock,        \* the clock
  file,         \* revocations.json
  server,       \* "down", "unconfigured" or "up"
  snapshot,     \* the snapshot in the server's memory
  call,         \* the call whose nonce is consumed
  nonces,       \* used_nonces.json
  spent,        \* budget_spent.json
  accepted,     \* history: the cost of the accepted calls of every mandate
  losses        \* history: how often each register could not be read

mandateVars == <<clock, file, server, snapshot, call, nonces, spent, accepted, losses>>

\* The instant of a key that is not listed.
Never == MaxNow + 1

Unseen == [loaded |-> FALSE, invalid |-> FALSE, gen |-> 0,
           revoked |-> [k \in SigningKey |-> Never],
           stamp |-> 0, validAt |-> 0, checkedAt |-> 0]

NoCall == [at |-> "idle"]

-----------------------------------------------------------------------------
(* revocation_store.py *)

\* No generation rollback, no removal, no backdating.
Follows(c) ==
  /\ file.valid
  /\ c.loaded => file.gen >= c.gen
  /\ \A k \in SigningKey : c.revoked[k] # Never => file.revoked[k] = c.revoked[k]

\* Mutant: a file that is refused leaves the old answer in force.
LoadLenient(c) ==
  IF Follows(c)
    THEN [loaded |-> TRUE, invalid |-> FALSE, gen |-> file.gen, revoked |-> file.revoked,
          stamp |-> file.stamp, validAt |-> clock, checkedAt |-> clock]
    ELSE [c EXCEPT !.checkedAt = clock]

Load(c) ==
  IF Follows(c)
    THEN [loaded |-> TRUE, invalid |-> FALSE, gen |-> file.gen, revoked |-> file.revoked,
          stamp |-> file.stamp, validAt |-> clock, checkedAt |-> clock]
    ELSE [c EXCEPT !.checkedAt = clock, !.invalid = TRUE]

\* The file is looked at when the interval is over, and read when it changed.
_refresh(c) ==
  IF clock - c.checkedAt < Refresh THEN c
  ELSE IF file.stamp = c.stamp THEN [c EXCEPT !.checkedAt = clock]
  ELSE Load(c)

is_revoked(c, k) ==
  ~c.loaded \/ c.invalid \/ clock - c.validAt > Freshness \/ c.revoked[k] <= clock

-----------------------------------------------------------------------------
(* The clock, the operator and the server process *)

Tick == clock < MaxNow /\ clock' = clock + 1
        /\ UNCHANGED <<file, server, snapshot, call, nonces, spent, accepted, losses>>

\* The operator replaces the file: keys listed now, dropped or kept, the
\* generation raised or not, or a file that does not parse.
Publish ==
  /\ file.stamp < MaxStamp
  /\ \E ok \in BOOLEAN, gen \in {file.gen, file.gen + 1, 0}, add, drop \in SUBSET SigningKey :
       file' = [stamp |-> file.stamp + 1, valid |-> ok, gen |-> gen, since |-> clock,
                revoked |-> [k \in SigningKey |-> IF k \in drop THEN Never
                                           ELSE IF k \in add THEN clock ELSE file.revoked[k]]]
  /\ UNCHANGED <<clock, server, snapshot, call, nonces, spent, accepted, losses>>

\* _build_mandate_verifier_from_env: no valid snapshot, no verifier.
StartServer ==
  /\ server = "down"
  /\ LET first == Load(Unseen) IN
     IF first.loaded
       THEN server' = "up" /\ snapshot' = first
       ELSE server' = "unconfigured" /\ snapshot' = Unseen
  /\ UNCHANGED <<clock, file, call, nonces, spent, accepted, losses>>

StopServer ==
  /\ server # "down"
  /\ server' = "down" /\ snapshot' = Unseen /\ call' = NoCall
  /\ UNCHANGED <<clock, file, nonces, spent, accepted, losses>>

-----------------------------------------------------------------------------
(* verify_mandate() *)

\* _read_json(): a register that is missing, corrupt or unreadable is taken for
\* an empty one, and written back without what it held.
_read_json(register, stored, empty, doc) ==
  \/ doc = stored /\ UNCHANGED losses
  \/ /\ doc = empty /\ doc # stored /\ losses[register] < MaxLosses
     /\ losses' = [losses EXCEPT ![register] = @ + 1]

\* Up to the nonce, which is consumed whatever the later checks say.  `fits`
\* stands for the tool, the data class and the runtime, `bound` for the issue
\* and the scope.
Consume(e, cost, fits, bound) ==
  /\ server = "up" /\ call = NoCall
  /\ snapshot' = _refresh(snapshot)
  /\ ~is_revoked(snapshot', e.key)
  /\ \E used \in {nonces, {}} :
       /\ _read_json("nonces", nonces, {}, used)
       /\ e.nonce \notin used /\ nonces' = used \cup {e.nonce}
  /\ call' = [at |-> "consumed", env |-> e, cost |-> cost, fits |-> fits, bound |-> bound]
  /\ UNCHANGED <<clock, file, server, spent, accepted>>

\* key_revoked, nonce_replayed
Refuse(e) ==
  /\ server = "up" /\ call = NoCall
  /\ snapshot' = _refresh(snapshot)
  /\ is_revoked(snapshot', e.key) \/ e.nonce \in nonces
  /\ UNCHANGED <<clock, file, server, call, nonces, spent, accepted, losses>>

\* expired, tool_not_allowed, data_class_exceeded, runtime_exceeded
RefuseLate ==
  /\ call.at = "consumed"
  /\ call.env.expires <= clock \/ ~call.fits
  /\ call' = NoCall
  /\ UNCHANGED <<clock, file, server, snapshot, nonces, spent, accepted, losses>>

\* _atomic_write_json() raises: the call is refused, the register as it was.
WriteFails ==
  /\ server = "up" /\ call' = NoCall
  /\ \/ call = NoCall /\ snapshot' = _refresh(snapshot)
     \/ call.at = "consumed" /\ call.env.expires > clock /\ call.fits /\ UNCHANGED snapshot
  /\ UNCHANGED <<clock, file, server, nonces, spent, accepted, losses>>

\* Mutant: the cap is compared with the spend before this call.
within_budget_before(sum, m, cost) == sum[m] <= Cap[m]

within_budget(sum, m, cost) == sum[m] + cost <= Cap[m]

Nothing == [m \in MandateId |-> 0]

\* record_and_check(): the debit stays whatever is decided after it.
Debit ==
  LET m == call.env.id IN
  /\ call.at = "consumed" /\ call.env.expires > clock /\ call.fits
  /\ \E sum \in {spent, Nothing} :
       /\ _read_json("spent", spent, Nothing, sum)
       /\ spent' = [sum EXCEPT ![m] = @ + call.cost]
       /\ accepted' = IF within_budget(sum, m, call.cost) /\ call.bound
                        THEN [accepted EXCEPT ![m] = @ + call.cost] ELSE accepted
  /\ call' = NoCall
  /\ UNCHANGED <<clock, file, server, snapshot, nonces>>

-----------------------------------------------------------------------------
MandateInit ==
  /\ clock = 0
  /\ file = [stamp |-> 1, valid |-> TRUE, gen |-> 1, since |-> 0,
             revoked |-> [k \in SigningKey |-> Never]]
  /\ server = "down" /\ snapshot = Unseen /\ call = NoCall
  /\ nonces = {} /\ spent = Nothing /\ accepted = Nothing
  /\ losses = [nonces |-> 0, spent |-> 0]

MandateNext ==
  \/ Tick \/ Publish \/ StartServer \/ StopServer
  \/ \E e \in Envelope :
       Refuse(e) \/ \E cost \in Cost, fits, bound \in BOOLEAN : Consume(e, cost, fits, bound)
  \/ RefuseLate \/ WriteFails \/ Debit

MandateSpec == MandateInit /\ [][MandateNext]_mandateVars

-----------------------------------------------------------------------------
(* Properties *)

\* A revocation, or a file the server cannot trust, that has been published for
\* the refresh interval stops every new call of the key, without a restart.
Reached(k) == clock - file.since >= Refresh /\ (~file.valid \/ file.revoked[k] <= clock)

RevocationReaches ==
  [][call = NoCall /\ call'.at = "consumed" => ~Reached(call'.env.key)]_mandateVars

\* The calls accepted under a mandate never cost more than its budget, whatever
\* is refused, crashes or is restarted in between: only a register of the spend
\* that reads as empty gives the mandate its budget again, and once each time.
SpendWithinCap == \A m \in MandateId : accepted[m] <= (1 + losses.spent) * Cap[m]

\* The invariant behind RevocationReaches: a snapshot with the stamp of the file
\* is the file, and one checked since the file was published has its stamp or is
\* marked invalid.
SnapshotFollows ==
  snapshot.loaded =>
    /\ snapshot.stamp <= file.stamp /\ snapshot.checkedAt <= clock
    /\ snapshot.stamp = file.stamp => file.valid /\ snapshot.revoked = file.revoked
    /\ snapshot.checkedAt > file.since => snapshot.invalid \/ snapshot.stamp = file.stamp

\* The invariant behind SpendWithinCap: the debits come first.
DebitedFirst == \A m \in MandateId : accepted[m] <= losses.spent * Cap[m] + spent[m]

=============================================================================
