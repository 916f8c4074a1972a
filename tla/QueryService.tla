---------------------------- MODULE QueryService ----------------------------
(***************************************************************************)
(* What the query coordinator promises its callers, without its flights,   *)
(* slots, store and locks: per key one shown result, which changes only    *)
(* while somebody asks for it and only at the newest generation asked      *)
(* for, a refresh that replaces a result whole or not at all, and an       *)
(* answer for everybody who stays.                                         *)
(***************************************************************************)
EXTENDS Naturals

CONSTANTS Scopes, Operations, MaxGen, Clients, Pages

Keys     == [scope : Scopes, op : Operations, gen : 1..MaxGen]
Lineages == Scopes \X Operations
Lineage(k) == <<k.scope, k.op>>

VARIABLES
  fence,  \* lineage -> the newest generation anybody asked for
  shown,  \* key -> what there is to show for it
  asks    \* client -> whether it asks, for which key, or has been told

serviceVars == <<fence, shown, asks>>

(* "refreshing" shows the result of before. *)
Shown == [state : {"absent", "loading", "refreshing", "result", "failed"}, pages : SUBSET Pages]
Settled == {"result", "failed"}

Nothing == [state |-> "absent", pages |-> {}]

ServiceInit ==
  /\ fence = [l \in Lineages |-> 0]
  /\ shown = [k \in Keys |-> Nothing]
  /\ \E k \in Keys : asks = [c \in Clients |-> [state |-> "idle", key |-> k]]

Asking(k) == {c \in Clients : asks[c].state = "asking" /\ asks[c].key = k}
Ready(c, k) == asks[c].state = "idle" \/ c \in Asking(k)
Become(c, state, k) == asks' = [asks EXCEPT ![c] = [state |-> state, key |-> k]]

-----------------------------------------------------------------------------
Ask(c, k) ==
  /\ asks[c].state = "idle" /\ Become(c, "asking", k)
  /\ UNCHANGED <<fence, shown>>

(* Told at once: what is shown already, or that the generation is an old one. *)
AnswerAtOnce(c, k) ==
  /\ \/ asks[c].state = "idle" /\ shown[k].state \in Settled
     \/ Ready(c, k) /\ fence[Lineage(k)] > k.gen
  /\ Become(c, "told", k)
  /\ UNCHANGED <<fence, shown>>

(* The first to ask for a newer generation: what the scope shows of other    *)
(* generations goes, and who waits for an older one of the query may be told.*)
AskNewer(c, k, told) ==
  /\ Ready(c, k) /\ k.gen > fence[Lineage(k)]
  /\ told \subseteq {d \in Clients \ {c} : /\ asks[d].state = "asking"
                                           /\ Lineage(asks[d].key) = Lineage(k)
                                           /\ asks[d].key.gen < k.gen}
  /\ fence' = [fence EXCEPT ![Lineage(k)] = k.gen]
  /\ shown' = [j \in Keys |-> IF j.scope = k.scope /\ j.gen # k.gen THEN Nothing ELSE shown[j]]
  /\ asks' = [d \in Clients |-> IF d = c THEN [state |-> "asking", key |-> k]
                                ELSE IF d \in told THEN [asks[d] EXCEPT !.state = "told"]
                                ELSE asks[d]]

(* A result in view is replaced by the one that completes its refresh, or *)
(* comes back when the refresh ends otherwise.                             *)
MayBecome(old, new) ==
  /\ new.state # "absent"
  /\ new.state = "refreshing" => old.state \in {"result", "refreshing"}
  /\ "refreshing" \in {old.state, new.state} /\ new.state # "result" => new.pages = old.pages

Load(k) ==
  LET new == shown'[k] IN
  /\ Asking(k) # {} /\ fence[Lineage(k)] = k.gen
  /\ new \in Shown /\ MayBecome(shown[k], new)
  /\ shown' = [shown EXCEPT ![k] = new]
  /\ UNCHANGED <<fence, asks>>

(* What AWS says no longer belongs to its context goes. *)
Forget(keys) ==
  /\ shown' = [k \in Keys |-> IF k \in keys THEN Nothing ELSE shown[k]]
  /\ UNCHANGED <<fence, asks>>

(* Everybody who waits may be told once nothing is being loaded any more. *)
Tell(k, told) ==
  /\ told \subseteq Asking(k) /\ shown[k].state \notin {"loading", "refreshing"}
  /\ asks' = [c \in Clients |-> IF c \in told THEN [asks[c] EXCEPT !.state = "told"] ELSE asks[c]]
  /\ UNCHANGED <<fence, shown>>

(* Who leaves may take the load along: a result of before stays in view. *)
Abandoned(old) ==
  [old EXCEPT !.state = CASE old.state = "refreshing" -> "result"
                          [] old.state = "loading" -> "failed"
                          [] OTHER -> old.state]

Leave(c, alone) ==
  LET k == asks[c].key IN
  /\ asks[c].state # "idle" /\ Become(c, "idle", CHOOSE j \in Keys : TRUE)
  /\ shown' = IF alone /\ asks[c].state = "asking" THEN [shown EXCEPT ![k] = Abandoned(@)] ELSE shown
  /\ UNCHANGED fence

ServiceNext ==
  \/ \E c \in Clients, k \in Keys : Ask(c, k) \/ AnswerAtOnce(c, k)
  \/ \E c \in Clients, k \in Keys, told \in SUBSET Clients : AskNewer(c, k, told)
  \/ \E k \in Keys : Load(k)
  \/ \E keys \in SUBSET Keys : Forget(keys)
  \/ \E k \in Keys, told \in SUBSET Clients : Tell(k, told)
  \/ \E c \in Clients, alone \in BOOLEAN : Leave(c, alone)

ServiceSpec == ServiceInit /\ [][ServiceNext]_serviceVars
=============================================================================
