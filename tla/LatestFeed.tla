----------------------------- MODULE LatestFeed -----------------------------
(***************************************************************************)
(* What the hub promises a dashboard on its stream.  Of each host there is *)
(* a current snapshot.  A stream owes its browser the snapshots that are   *)
(* current when it opens and those that become so while it is open, and    *)
(* pays them in any order, but it takes a browser back to an older one     *)
(* only while it still owes it the newer.  A snapshot may be skipped when  *)
(* a newer one of its host comes, and is lost only to a browser that has   *)
(* a whole channel of others to read.                                      *)
(***************************************************************************)
EXTENDS Naturals

CONSTANTS
    Browsers,
    Capacity   \* how far a browser may be behind before it loses snapshots

VARIABLES
    current,   \* the current snapshots, one of each host that has one
    open,      \* the browsers whose stream is open
    owed,      \* what each stream has still to show its browser
    shown      \* what each browser shows

vars == <<current, open, owed, shown>>

Of(S, h) == {x \in S : x.host = h}
Replace(S, m) == (S \ Of(S, m.host)) \cup {m}

(* The streams but that of b owe what they owed.                           *)
OnlyOwes(b, S) == owed' = [owed EXCEPT ![b] = S]

Init ==
    /\ current = {} /\ open = {}
    /\ owed = [b \in Browsers |-> {}]
    /\ shown = [b \in Browsers |-> {}]

(* A newer snapshot of a host: every open stream owes it, and may forget   *)
(* those that it supersedes.                                               *)
Supersede(m) ==
    /\ \A x \in Of(current, m.host) : x.ts < m.ts
    /\ \A b \in Browsers : \A x \in Of(owed[b] \cup shown[b], m.host) : x.ts < m.ts
    /\ current' = Replace(current, m)
    /\ \A b \in open :
           /\ m \in owed'[b] /\ owed'[b] \subseteq owed[b] \cup {m}
           /\ owed[b] \ owed'[b] \subseteq Of(owed[b], m.host)
    /\ \A b \in Browsers \ open : owed'[b] = owed[b]
    /\ UNCHANGED <<open, shown>>

(* A host is removed: what a stream owes of it may be withdrawn.           *)
Withdraw(h) ==
    /\ current' = current \ Of(current, h)
    /\ \A b \in Browsers :
           owed'[b] \subseteq owed[b] /\ owed[b] \ owed'[b] \subseteq Of(current, h)
    /\ UNCHANGED <<open, shown>>

(* A stream opens.  A host that was removed meanwhile may be owed as well. *)
Connect(b) ==
    /\ b \notin open /\ open' = open \cup {b}
    /\ \E removed \in SUBSET owed'[b] :
           /\ \A m \in removed : Of(current, m.host) = {}
           /\ OnlyOwes(b, current \cup removed)
    /\ UNCHANGED <<current, shown>>

(* The browser is shown a snapshot, not an older one than it shows already *)
(* but where the newer is yet to come; it may be owed the same again.      *)
Show(b, m) ==
    /\ b \in open /\ m \in owed[b]
    /\ \A x \in Of(shown[b], m.host) : x.ts > m.ts => x \in owed[b]
    /\ shown' = [shown EXCEPT ![b] = Replace(@, m)]
    /\ OnlyOwes(b, owed[b]) \/ OnlyOwes(b, owed[b] \ {m})
    /\ UNCHANGED <<current, open>>

(* A snapshot is lost, and Capacity others are left.                       *)
Lose(b, m) ==
    /\ b \in open /\ m \in owed[b]
    /\ OnlyOwes(b, owed[b] \ {m})
    /\ \E others \in [1..Capacity -> owed'[b]] :
           \A i, j \in 1..Capacity : i # j => others[i] # others[j]
    /\ UNCHANGED <<current, open, shown>>

Disconnect(b) ==
    /\ b \in open /\ open' = open \ {b}
    /\ OnlyOwes(b, {})
    /\ UNCHANGED <<current, shown>>

(* The hub starts anew and knows of no host.                               *)
Reset ==
    /\ current' = {} /\ open' = {}
    /\ owed' = [b \in Browsers |-> {}]
    /\ UNCHANGED shown

Next ==
    \/ \E m \in current' : Supersede(m)
    \/ \E h \in {m.host : m \in current} : Withdraw(h)
    \/ \E b \in Browsers : Connect(b) \/ Disconnect(b) \/ \E m \in owed[b] : Show(b, m) \/ Lose(b, m)
    \/ Reset

Spec == Init /\ [][Next]_vars
=============================================================================
