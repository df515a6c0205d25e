-------------------------- MODULE IdempotencyGuard --------------------------
(***************************************************************************)
(* The HTTP idempotency guard and interceptor (common/idempotency.guard,   *)
(* idempotency.interceptor), version 2, the default: requests that carry   *)
(* one and the same x-idempotency-key, at any number of instances.  Redis  *)
(* holds for that key                                                      *)
(*                                                                         *)
(*   scope  the body fingerprint of the first request seen (SET NX)        *)
(*   entry  per body a placeholder while a handler runs, then its response *)
(*                                                                         *)
(* Each Redis command is a step of its own, so the lookup of the entry and *)
(* the write of the placeholder may interleave with other requests.        *)
(* HandlerReturns and HandlerThrows stand for whatever controller method   *)
(* is decorated; CheckoutOrders composes the guard with the one that is.   *)
(***************************************************************************)
CONSTANTS
    Requests,   \* HTTP requests that carry the key
    Bodies,     \* body fingerprints
    BodyOf,     \* the body of each request
    None,       \* nothing stored, or no answer yet
    Placeholder, Conflict, Error,   \* a placeholder, the answer 409, an error
    Faulty,     \* requests whose Redis commands may fail
    Mortal,     \* requests whose instance may crash
    Expiring    \* whether one of the keys may reach its TTL (24 hours)

ASSUME GuardAssumption ==
    /\ BodyOf \in [Requests -> Bodies]
    /\ None \notin Bodies
    /\ {None, Placeholder, Conflict, Error} \cap Requests = {}
    /\ None # Placeholder
    /\ Faulty \subseteq Requests
    /\ Mortal \subseteq Requests
    /\ Expiring \in BOOLEAN

VARIABLES
    scope,      \* the stored fingerprint
    entry,      \* what is cached for each body
    pc,         \* how far each request has got
    keyed,      \* requests whose response is to be cached (_idempotencyKey)
    clearing,   \* failed requests whose unawaited DEL has not arrived yet
    answer,     \* what each client was answered: the response of a request
    started,    \* history: requests whose handler was entered under the guard
    settled,    \* history: requests stored while no rival could undo it
    faults      \* history: "redis" a command failed, "expired" a key expired

guardVars == <<scope, entry, pc, keyed, clearing, answer, started, settled, faults>>

Phases == {"claim", "compare", "lookup", "poll", "clearStale", "place",
           "handler", "store", "respond", "done", "crashed"}

\* Variant for the checks: the key of version 1, which leaves the body out.
HeaderOnly(r) == CHOOSE b \in Bodies : TRUE

\* The fingerprint that is part of the cache key.
CacheKey(r) == BodyOf[r]

\* Requests that may yet delete or overwrite what is cached for a body.
Rivals(b) ==
    {s \in Requests : /\ CacheKey(s) = b
                      /\ \/ pc[s] \in {"clearStale", "place", "handler", "store"}
                         \/ s \in clearing}

GuardInit ==
    /\ scope = None
    /\ entry = [b \in Bodies |-> None]
    /\ pc = [r \in Requests |-> "claim"]
    /\ keyed = {}
    /\ clearing = {}
    /\ answer = [r \in Requests |-> None]
    /\ started = {}
    /\ settled = {}
    /\ faults = {}

Goto(r, phase) == pc' = [pc EXCEPT ![r] = phase]

Answer(r, what) ==
    /\ answer' = [answer EXCEPT ![r] = what]
    /\ Goto(r, "done")

\* SET NX: the first request's fingerprint stays.
ScopeAfterClaim(r) == IF scope = None THEN BodyOf[r] ELSE scope

Claim(r) ==
    /\ pc[r] = "claim"
    /\ Goto(r, IF scope = None THEN "lookup" ELSE "compare")
    /\ scope' = ScopeAfterClaim(r)
    /\ UNCHANGED <<entry, keyed, clearing, answer, started, settled, faults>>

\* GET of the scope; if it expired since the SET the request goes on.
Compare(r) ==
    /\ pc[r] = "compare"
    /\ \/ /\ scope \in {None, BodyOf[r]}
          /\ Goto(r, "lookup")
          /\ UNCHANGED answer
       \/ /\ scope \notin {None, BodyOf[r]}
          /\ Answer(r, Conflict)
    /\ UNCHANGED <<scope, entry, keyed, clearing, started, settled, faults>>

\* A cached response is sent as it is, an absent entry lets the request on.
Serve(r, then) ==
    LET found == entry[CacheKey(r)]
    IN  \/ /\ found = None
           /\ Goto(r, "place")
           /\ UNCHANGED answer
        \/ /\ found = Placeholder
           /\ Goto(r, then)
           /\ UNCHANGED answer
        \/ /\ found \in Requests
           /\ Answer(r, found)

Lookup(r) ==
    /\ pc[r] = "lookup"
    /\ Serve(r, "poll")
    /\ UNCHANGED <<scope, entry, keyed, clearing, started, settled, faults>>

\* Variant: a request polls as long as there is a placeholder.
KeepsPolling == "poll"

\* Five polls, a second in all; then the placeholder is taken for stale.
AfterLastPoll == "clearStale"

\* The last poll.  An earlier one that finds a placeholder changes nothing.
Poll(r) ==
    /\ pc[r] = "poll"
    /\ Serve(r, AfterLastPoll)
    /\ UNCHANGED <<scope, entry, keyed, clearing, started, settled, faults>>

\* The DEL takes whatever is stored by then.
ClearStale(r) ==
    /\ pc[r] = "clearStale"
    /\ entry' = [entry EXCEPT ![CacheKey(r)] = None]
    /\ Goto(r, "place")
    /\ UNCHANGED <<scope, keyed, clearing, answer, started, settled, faults>>

\* SET of the placeholder, without NX; the handler is entered.
Place(r) ==
    /\ pc[r] = "place"
    /\ entry' = [entry EXCEPT ![CacheKey(r)] = Placeholder]
    /\ keyed' = keyed \cup {r}
    /\ started' = started \cup {r}
    /\ Goto(r, "handler")
    /\ UNCHANGED <<scope, clearing, answer, settled, faults>>

----------------------------------------------------------------------------
\* The interceptor.  Without a key it adds nothing to the handler.
HandlerReturns(r) ==
    /\ pc[r] = "handler"
    /\ Goto(r, IF r \in keyed THEN "store" ELSE "respond")
    /\ UNCHANGED <<scope, entry, keyed, clearing, answer, started, settled, faults>>

ResponseOf(r) == r

Store(r) ==
    /\ pc[r] = "store"
    /\ entry' = [entry EXCEPT ![CacheKey(r)] = ResponseOf(r)]
    /\ settled' = IF Rivals(CacheKey(r)) = {r} THEN settled \cup {r} ELSE settled
    /\ Goto(r, "respond")
    /\ UNCHANGED <<scope, keyed, clearing, answer, started, faults>>

\* Variant: the entry is deleted after a success too.
RespondAndClear(r) ==
    /\ pc[r] = "respond"
    /\ Answer(r, r)
    /\ clearing' = clearing \cup ({r} \cap keyed)
    /\ UNCHANGED <<scope, entry, keyed, started, settled, faults>>

Respond(r) ==
    /\ pc[r] = "respond"
    /\ Answer(r, r)
    /\ UNCHANGED <<scope, entry, keyed, clearing, started, settled, faults>>

\* The DEL of the placeholder is sent and not waited for.
HandlerThrows(r) ==
    /\ pc[r] = "handler"
    /\ Answer(r, Error)
    /\ clearing' = clearing \cup ({r} \cap keyed)
    /\ UNCHANGED <<scope, entry, keyed, started, settled, faults>>

\* The DEL arrives, and takes whatever is stored by then.
Cleared(r) ==
    /\ r \in clearing
    /\ clearing' = clearing \ {r}
    /\ entry' = [entry EXCEPT ![CacheKey(r)] = None]
    /\ UNCHANGED <<scope, pc, keyed, answer, started, settled, faults>>

----------------------------------------------------------------------------
\* A Redis command fails, after it took effect or before.  In the guard the
\* request goes on without deduplication; failures of a poll, of a DEL and of
\* the store are swallowed where they happen.
RedisFails(r) ==
    /\ r \in Faulty
    /\ faults' = faults \cup {"redis"}
    /\ \/ /\ pc[r] \in {"claim", "compare", "lookup", "place"}
          /\ Goto(r, "handler")
          /\ \/ UNCHANGED <<scope, entry>>
             \/ /\ pc[r] = "claim"
                /\ scope' = ScopeAfterClaim(r)
                /\ UNCHANGED entry
             \/ /\ pc[r] = "place"
                /\ entry' = [entry EXCEPT ![CacheKey(r)] = Placeholder]
                /\ UNCHANGED scope
          /\ UNCHANGED clearing
       \/ /\ pc[r] \in {"poll", "clearStale"}
          /\ Goto(r, "place")
          /\ UNCHANGED <<scope, entry, clearing>>
       \/ /\ pc[r] = "store"
          /\ Goto(r, "respond")
          /\ UNCHANGED <<scope, entry, clearing>>
       \/ /\ r \in clearing
          /\ clearing' = clearing \ {r}
          /\ UNCHANGED <<scope, entry, pc>>
    /\ UNCHANGED <<keyed, answer, started, settled>>

\* The instance dies: the request is never answered, its placeholder stays.
Crash(r) ==
    /\ r \in Mortal
    /\ pc[r] # "done"
    /\ Goto(r, "crashed")
    /\ UNCHANGED <<scope, entry, keyed, clearing, answer, started, settled, faults>>

\* A key reaches its TTL; a run lasts long enough for one of them.
Expire ==
    /\ Expiring
    /\ "expired" \notin faults
    /\ \/ /\ scope # None
          /\ scope' = None
          /\ UNCHANGED entry
       \/ \E b \in Bodies : /\ entry[b] # None
                            /\ entry' = [entry EXCEPT ![b] = None]
                            /\ UNCHANGED scope
    /\ faults' = faults \cup {"expired"}
    /\ UNCHANGED <<pc, keyed, clearing, answer, started, settled>>

Guarding(r) == Claim(r) \/ Compare(r) \/ Lookup(r) \/ Poll(r) \/ ClearStale(r) \/ Place(r)

Answering(r) == Store(r) \/ Respond(r)

Undisturbed(r) == Guarding(r) \/ Answering(r) \/ Cleared(r)

Disturbance == Expire \/ \E r \in Requests : RedisFails(r) \/ Crash(r)

GuardNext ==
    \/ \E r \in Requests : Undisturbed(r) \/ HandlerReturns(r) \/ HandlerThrows(r)
    \/ Disturbance

GuardSpec == GuardInit /\ [][GuardNext]_guardVars

----------------------------------------------------------------------------
\* The types of the guard's variables.
GuardTypeOK ==
    /\ scope \in Bodies \cup {None}
    /\ entry \in [Bodies -> Requests \cup {None, Placeholder}]
    /\ pc \in [Requests -> Phases]
    /\ keyed \subseteq Requests
    /\ clearing \subseteq keyed
    /\ answer \in [Requests -> Requests \cup {None, Conflict, Error}]
    /\ started \subseteq Requests
    /\ settled \subseteq Requests
    /\ faults \subseteq {"redis", "expired"}

\* Invariant I13: whatever fails or expires, no client is ever answered with
\* the response to another body.
AnswersMatchBody ==
    \A r \in Requests : answer[r] \in Requests => BodyOf[answer[r]] = BodyOf[r]

\* One key means one body: unless Redis failed or a key expired, all requests
\* whose handler was entered carry the same body, however their claims race.
OneBodyPerKey ==
    faults = {} => \A r, s \in started : BodyOf[r] = BodyOf[s]

\* A response stored while no other request of its body was past its lookup
\* is final: unless Redis fails or a key expires it stays cached, and no
\* handler runs again for that body.  A request past its lookup may still
\* overwrite or delete it, and then the next retry runs the handler again.
SettledIsFinal ==
    faults = {} => \A r \in settled : /\ entry[BodyOf[r]] \in Requests
                                      /\ Rivals(BodyOf[r]) = {}
=============================================================================
