----------------------------- MODULE AvatarLease -----------------------------
(***************************************************************************)
(* What the session protocol promises about character data: on each world  *)
(* server an account's avatar is held by one client at a time, and passes  *)
(* to another client only after it has been given up.  An avatar is loaded *)
(* from the database when it is granted and written back when it is        *)
(* released, so a grant before the release would load stale data.          *)
(***************************************************************************)
CONSTANTS Worlds, Accounts, Clients, AccountOf, Nobody

VARIABLE holder  \* holder[w][a]: the client that plays account a on world w

Init == holder = [w \in Worlds |-> [a \in Accounts |-> Nobody]]

\* loaddata() of c's avatar.
Grant(w, c) ==
  /\ holder[w][AccountOf[c]] = Nobody
  /\ holder' = [holder EXCEPT ![w][AccountOf[c]] = c]

\* savedata() and the end of the entry.
Release(w, a) ==
  /\ holder[w][a] # Nobody
  /\ holder' = [holder EXCEPT ![w][a] = Nobody]

\* The world server dies.
ReleaseAll(w) == holder' = [holder EXCEPT ![w] = [a \in Accounts |-> Nobody]]

Next ==
  \E w \in Worlds :
    \/ \E c \in Clients : Grant(w, c)
    \/ \E a \in Accounts : Release(w, a)
    \/ ReleaseAll(w)

Spec == Init /\ [][Next]_holder
=============================================================================
