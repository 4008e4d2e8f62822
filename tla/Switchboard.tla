------------------------------ MODULE Switchboard ------------------------------
(***************************************************************************)
(* What the DB-backed resource toggles promise a request, with no database, *)
(* release, process or copy in sight.                                      *)
(*                                                                         *)
(* A board of switches, one per RAI: not registered yet, on, or off.  A    *)
(* request asks about one switch at a time; at one instant between its     *)
(* question and its reply the switch is read, and the reply follows that   *)
(* reading: a switch read on lets the request in, where it is served or    *)
(* refused; any other reading makes the resource absent for it (404), and  *)
(* neither the ACL nor the handler gets to see the request.                *)
(***************************************************************************)
CONSTANTS Switches, Askers

VARIABLES switch, ask

boardVars == <<switch, ask>>

Settings == {"unregistered", "on", "off"}
\* "outside" is an answer given without any switch: by the edge middleware or
\* because no (further) route matches.  "error" is a reading that failed.
Replies == {"absent", "refused", "served", "outside", "error"}

Idle             == [state |-> "idle"]
Waiting(r)       == [state |-> "waiting", on |-> r]
Read(r, lit)     == [state |-> "read", on |-> r, lit |-> lit]
Replied(reply)   == [state |-> "replied", reply |-> reply]

BoardInit ==
    /\ switch = [r \in Switches |-> "unregistered"]
    /\ ask = [q \in Askers |-> Idle]

\* A switch appears, in the on position.
Register(r) ==
    /\ switch[r] = "unregistered"
    /\ switch' = [switch EXCEPT ![r] = "on"]
    /\ UNCHANGED ask

\* Somebody turns a switch that exists.
Turn(r) ==
    /\ switch[r] # "unregistered"
    /\ switch' = [switch EXCEPT ![r] = IF @ = "on" THEN "off" ELSE "on"]
    /\ UNCHANGED ask

\* A request's first question, or an answer outside the board.
Ask(q) ==
    /\ ask[q] = Idle
    /\ \E entry \in {Waiting(r) : r \in Switches} \cup {Replied("outside")} :
          ask' = [ask EXCEPT ![q] = entry]
    /\ UNCHANGED switch

Decide(q, r) ==
    /\ ask[q] = Waiting(r)
    /\ \E entry \in {Read(r, switch[r] = "on"), Replied("error")} :
          ask' = [ask EXCEPT ![q] = entry]
    /\ UNCHANGED switch

\* A route may pass an admitted request on to the next.
Conclude(q, r) ==
    /\ \/ /\ ask[q] = Read(r, TRUE)
          /\ \E entry \in {Replied("refused"), Replied("served"), Replied("outside")}
                            \cup {Waiting(s) : s \in Switches} :
                ask' = [ask EXCEPT ![q] = entry]
       \/ /\ ask[q] = Read(r, FALSE)
          /\ ask' = [ask EXCEPT ![q] = Replied("absent")]
    /\ UNCHANGED switch

\* Connections are cut, or their replies delivered.
Leave(Q) ==
    /\ ask' = [q \in Askers |-> IF q \in Q THEN Idle ELSE ask[q]]
    /\ UNCHANGED switch

BoardNext ==
    \/ \E r \in Switches : Register(r) \/ Turn(r)
    \/ \E q \in Askers : Ask(q) \/ \E r \in Switches : Decide(q, r) \/ Conclude(q, r)
    \/ \E Q \in SUBSET Askers : Leave(Q)

BoardSpec == BoardInit /\ [][BoardNext]_boardVars
=============================================================================
