----------------------------- MODULE Idempotency -----------------------------
(***************************************************************************)
(* Idempotency keys of gateway requests                                    *)
(* (internal/app/gateway_idempotency.go) and the handlers that use them:   *)
(* a call claims a "processing" row before anything is sent upstream and   *)
(* replaces it by its response afterwards.  Claiming is serialised by an   *)
(* advisory lock, finishing is not; the process may die and the database   *)
(* may fail in between.                                                    *)
(***************************************************************************)
EXTENDS Naturals

CONSTANTS
    Calls,          \* HTTP requests that carry an Idempotency-Key
    Keys,           \* (scope, key hash) pairs
    Fingerprints,
    KeyOf, Fingerprint,
    Careful,        \* video, voice and background calls, whose finish is skipped
                    \* when the outcome of a dispatched request is unknown
    MaxFaults,
    None

ASSUME IdempotencyAssumption ==
    /\ KeyOf \in [Calls -> Keys]
    /\ Fingerprint \in [Calls -> Fingerprints]
    /\ Careful \subseteq Calls
    /\ MaxFaults \in Nat
    /\ None \notin Calls \cup Fingerprints

VARIABLES
    status,     \* idempotency_records.status, "absent" without a row
    print,      \* request_fingerprint
    body,       \* response_body: the call whose response is stored, or NULL
    expired,    \* expires_at <= now()
    pc,
    outcome,    \* what writer.status and writer.succeeded say
    replay,     \* the call whose response a client got with Idempotency-Replayed
    sent,       \* calls dispatched upstream
    saved,      \* calls whose completion was stored (history variable)
    faults

records == <<status, print, body, expired>>
vars == <<records, pc, outcome, replay, sent, saved, faults>>

TypeOK ==
    /\ status \in [Keys -> {"absent", "processing", "succeeded", "failed"}]
    /\ print \in [Keys -> Fingerprints \cup {None}]
    /\ body \in [Keys -> Calls \cup {None}]
    /\ expired \in [Keys -> BOOLEAN]
    /\ pc \in [Calls -> {"new", "lookup", "insert", "claimed", "sent", "finish", "done"}]
    /\ outcome \in [Calls -> {"succeeded", "failed"}]
    /\ replay \in [Calls -> Calls \cup {None}]
    /\ sent \subseteq Calls
    /\ saved \subseteq Calls
    /\ faults \in 0..MaxFaults

Init ==
    /\ status = [k \in Keys |-> "absent"]
    /\ print = [k \in Keys |-> None]
    /\ body = [k \in Keys |-> None]
    /\ expired = [k \in Keys |-> FALSE]
    /\ pc = [c \in Calls |-> "new"]
    /\ outcome = [c \in Calls |-> "failed"]
    /\ replay = [c \in Calls |-> None]
    /\ sent = {}
    /\ saved = {}
    /\ faults = 0

Fault == faults < MaxFaults /\ faults' = faults + 1
NoFault == UNCHANGED faults

Goto(c, label) == pc' = [pc EXCEPT ![c] = label]

-----------------------------------------------------------------------------
(* claimGatewayRequest                                                     *)

Locking(c) == pc[c] \in {"lookup", "insert"}

\* pg_advisory_xact_lock, held until the transaction ends.
BeginClaim(c) ==
    /\ pc[c] = "new"
    /\ \A d \in Calls : KeyOf[d] = KeyOf[c] => ~Locking(d)
    /\ Goto(c, "lookup")
    /\ UNCHANGED <<records, outcome, replay, sent, saved, faults>>

\* Mutant: a failed request may be repeated with its key at once.
LiveUnlessFailed(k) == status[k] \in {"processing", "succeeded"} /\ (~expired[k] \/ status[k] = "processing")

\* Mutant: a processing row can expire as well.
LiveUnlessExpired(k) == status[k] # "absent" /\ ~expired[k]

\* expires_at > now() OR status = 'processing'
Live(k) == status[k] # "absent" /\ (~expired[k] \/ status[k] = "processing")

\* Mutant: the fingerprint is not compared.
LookupAnyFingerprint(c) ==
    /\ pc[c] = "lookup"
    /\ \/ /\ ~Live(KeyOf[c])
          /\ Goto(c, "insert")
          /\ UNCHANGED replay
       \/ /\ Live(KeyOf[c])
          /\ Goto(c, "done")
          /\ replay' = IF status[KeyOf[c]] # "processing" THEN [replay EXCEPT ![c] = body[KeyOf[c]]] ELSE replay
    /\ UNCHANGED <<records, outcome, sent, saved, faults>>

\* A live row of another request, of one in progress, or without a body is a
\* conflict; any other live row is replayed.
Lookup(c) ==
    /\ pc[c] = "lookup"
    /\ \/ /\ ~Live(KeyOf[c])
          /\ Goto(c, "insert")
          /\ UNCHANGED replay
       \/ /\ Live(KeyOf[c])
          /\ Goto(c, "done")
          /\ replay' = IF print[KeyOf[c]] = Fingerprint[c] /\ status[KeyOf[c]] # "processing"
                         THEN [replay EXCEPT ![c] = body[KeyOf[c]]] ELSE replay
    /\ UNCHANGED <<records, outcome, sent, saved, faults>>

\* INSERT ... ON CONFLICT DO UPDATE, then commit.  The handler goes on only
\* with an acknowledged commit.
Insert(c) ==
    /\ pc[c] = "insert"
    /\ status' = [status EXCEPT ![KeyOf[c]] = "processing"]
    /\ print' = [print EXCEPT ![KeyOf[c]] = Fingerprint[c]]
    /\ body' = [body EXCEPT ![KeyOf[c]] = None]
    /\ expired' = [expired EXCEPT ![KeyOf[c]] = FALSE]
    /\ \/ NoFault /\ Goto(c, "claimed")
       \/ Fault /\ Goto(c, "done")
    /\ UNCHANGED <<outcome, replay, sent, saved>>

\* A statement or the commit fails and nothing is stored.
ClaimFails(c) ==
    /\ Locking(c)
    /\ Fault
    /\ Goto(c, "done")
    /\ UNCHANGED <<records, outcome, replay, sent, saved>>

-----------------------------------------------------------------------------
(* The handler between claim and finish                                    *)

\* Authorisation, admission, pricing or limits refuse the request.
Refuse(c) ==
    /\ pc[c] = "claimed"
    /\ outcome' = [outcome EXCEPT ![c] = "failed"]
    /\ Goto(c, "finish")
    /\ UNCHANGED <<records, replay, sent, saved, faults>>

Dispatch(c) ==
    /\ pc[c] = "claimed"
    /\ sent' = sent \cup {c}
    /\ Goto(c, "sent")
    /\ UNCHANGED <<records, outcome, replay, saved, faults>>

\* The upstream's answer is definite, or it is not and a careful handler
\* returns without finish.
Answer(c) ==
    /\ pc[c] = "sent"
    /\ \/ /\ outcome' \in {[outcome EXCEPT ![c] = o] : o \in {"succeeded", "failed"}}
          /\ Goto(c, "finish")
       \/ /\ c \in Careful
          /\ Goto(c, "done")
          /\ UNCHANGED outcome
    /\ UNCHANGED <<records, replay, sent, saved, faults>>

\* UPDATE ... WHERE request_fingerprint AND status = 'processing'.  A response
\* over 16 MiB is stored as NULL.  The result is ignored: when the statement
\* fails the row stays "processing".
Finish(c) ==
    /\ pc[c] = "finish"
    /\ \/ /\ status[KeyOf[c]] = "processing" /\ print[KeyOf[c]] = Fingerprint[c]
          /\ status' = [status EXCEPT ![KeyOf[c]] = outcome[c]]
          /\ \E b \in {c, None} : body' = [body EXCEPT ![KeyOf[c]] = b]
          /\ saved' = saved \cup {c}
          /\ NoFault
       \/ /\ ~(status[KeyOf[c]] = "processing" /\ print[KeyOf[c]] = Fingerprint[c])
          /\ NoFault
          /\ UNCHANGED <<status, body, saved>>
       \/ Fault /\ UNCHANGED <<status, body, saved>>
    /\ Goto(c, "done")
    /\ UNCHANGED <<print, expired, outcome, replay, sent>>

-----------------------------------------------------------------------------
(* Surroundings                                                            *)

\* 24 hours pass, also while a request is still in progress.
Expire(k) ==
    /\ status[k] # "absent" /\ ~expired[k]
    /\ expired' = [expired EXCEPT ![k] = TRUE]
    /\ UNCHANGED <<status, print, body, pc, outcome, replay, sent, saved, faults>>

\* The process dies; PostgreSQL rolls open transactions back.
Crash ==
    /\ Fault
    /\ pc' = [c \in Calls |-> IF pc[c] = "new" THEN "new" ELSE "done"]
    /\ UNCHANGED <<records, outcome, replay, sent, saved>>

Call(c) ==
    \/ BeginClaim(c) \/ Lookup(c) \/ Insert(c) \/ ClaimFails(c)
    \/ Refuse(c) \/ Dispatch(c) \/ Answer(c) \/ Finish(c)

Next ==
    \/ \E c \in Calls : Call(c)
    \/ \E k \in Keys : Expire(k)
    \/ Crash

Spec == Init /\ [][Next]_vars

-----------------------------------------------------------------------------
(* Properties                                                              *)

\* Calls whose outcome may still be unknown: between claim and finish, or
\* sent upstream and never stored (crash, skipped or failed finish).
Open(c) == pc[c] \in {"claimed", "sent", "finish"} \/ c \in sent \ saved

\* While a call is open no other call of its key is, whatever expires,
\* crashes or fails: a possibly paid request is never sent a second time.
OneOpenCall == \A c, d \in Calls : Open(c) /\ Open(d) /\ KeyOf[c] = KeyOf[d] => c = d

\* A replayed response is the stored answer of a finished call with the same
\* key and the same fingerprint, and the replaying call sent nothing.
ReplayIsOriginal ==
    \A c \in Calls :
        replay[c] # None =>
            /\ replay[c] \in saved
            /\ KeyOf[replay[c]] = KeyOf[c]
            /\ Fingerprint[replay[c]] = Fingerprint[c]
            /\ c \notin sent

\* A processing row is never taken over, only completed; a completed row is
\* replaced only after it expired.
RowLifecycle ==
    \A k \in Keys :
        /\ status[k] = "processing" => print'[k] = print[k] /\ status'[k] # "absent"
        /\ status[k] \in {"succeeded", "failed"} /\ ~expired[k] =>
             status'[k] = status[k] /\ print'[k] = print[k] /\ body'[k] = body[k]

NeverTakenOver == [][RowLifecycle]_vars
=============================================================================
