--------------------------- MODULE DriversProofs ---------------------------
(***************************************************************************)
(* What is proved of Drivers, for any users, drivers, shifts, vehicles and *)
(* requests.                                                               *)
(***************************************************************************)
EXTENDS Drivers, FiniteSetTheorems, TLAPS

AtMostOne(S) == \A x, y \in S : x = y

\* What a request refers to is there, and what it found stays: nothing is ever
\* removed.
Refers(q) ==
  /\ request[q].op = "assign" =>
       /\ members[request[q].user] # "none"
       /\ ~request[q].missing => Profiles(request[q].user) # {}
  /\ request[q].op = "start" => drivers[request[q].driver] # None
  /\ request[q].op = "end" =>
       /\ shifts[request[q].shift] # None
       /\ shifts[request[q].shift].driver = request[q].driver

Referred == \A q \in Request : Refers(q)

\* Unless requests met at u: whoever is about to add a profile still finds none.
Roles ==
  \A u \in User \ raced :
    /\ AtMostOne(Profiles(u))
    /\ \A q \in Request :
         request[q].op = "assign" /\ request[q].user = u /\ request[q].missing => Profiles(u) = {}

\* Unless requests met at d: whoever starts a shift still finds none, whoever
\* ends one still finds that one, and both know the status.
Shifts ==
  \A d \in DriverId \ raced :
    /\ AtMostOne(OnShift(d))
    /\ \A q \in OnDriver(d) :
         /\ request[q].op = "start" => OnShift(d) = {}
         /\ request[q].op = "end" => request[q].shift \in OnShift(d)
         /\ request[q].status = drivers[d].status

\* Unless requests met at plate: whoever is about to add it still finds none.
Plates ==
  \A plate \in Plate \ raced :
    /\ AtMostOne(With(plate))
    /\ \A q \in Request :
         request[q].op = "vehicle" /\ request[q].plate = plate => With(plate) = {}

DriversInv == TypeOK /\ Referred /\ Roles /\ Shifts /\ Plates /\ ShiftsAgree

-----------------------------------------------------------------------------
(* Rows and requests.                                                       *)

LEMMA RequestFields ==
  ASSUME TypeOK, NEW q \in Request
  PROVE  /\ request[q].op \in {"none", "assign", "start", "end", "vehicle"}
         /\ request[q].op = "assign" =>
              request[q].user \in User /\ request[q].missing \in BOOLEAN
         /\ request[q].op = "start" =>
              request[q].driver \in DriverId /\ request[q].status \in DriverStatus
         /\ request[q].op = "end" =>
              /\ request[q].driver \in DriverId
              /\ request[q].shift \in ShiftId
              /\ request[q].status \in DriverStatus
         /\ request[q].op = "vehicle" => request[q].plate \in Plate
         /\ request[q].op = "none" => request[q] = Idle
<1>1. request[q] \in {Idle} \cup RequestRow
  BY DEF TypeOK
<1>2. CASE request[q] = Idle
  BY <1>2 DEF Idle
<1>3. CASE request[q] \in [op : {"assign"}, user : User, missing : BOOLEAN]
  BY <1>3
<1>4. CASE request[q] \in [op : {"start"}, driver : DriverId, status : DriverStatus]
  BY <1>4
<1>5. CASE request[q] \in [op : {"end"}, driver : DriverId, shift : ShiftId, status : DriverStatus]
  BY <1>5
<1>6. CASE request[q] \in [op : {"vehicle"}, plate : Plate]
  BY <1>6
<1> QED
  BY <1>1, <1>2, <1>3, <1>4, <1>5, <1>6 DEF RequestRow

LEMMA IdleIsNoRow == Idle \notin RequestRow /\ Idle.op = "none"
BY DEF Idle, RequestRow

LEMMA RowsAreLive ==
  ASSUME NEW row \in DriverRow
  PROVE  row # None /\ row.status \in DriverStatus /\ row.user \in User \cup {Nobody}
BY DEF DriverRow, None

\* Opening a request touches no other and no table.
LEMMA OpenFrame ==
  ASSUME TypeOK, NEW r \in Request, NEW row \in RequestRow, Opens(r, row)
  PROVE  /\ request[r].op = "none"
         /\ request' \in [Request -> {Idle} \cup RequestRow]
         /\ request'[r] = row
         /\ \A q \in Request \ {r} : request'[q] = request[q]
         /\ UNCHANGED <<members, drivers, shifts, vehicles, raced, edited>>
BY DEF Opens, TypeOK, Idle

LEMMA CloseFrame ==
  ASSUME TypeOK, NEW r \in Request, Closes(r)
  PROVE  /\ request' \in [Request -> {Idle} \cup RequestRow]
         /\ request'[r].op = "none"
         /\ \A q \in Request \ {r} : request'[q] = request[q]
BY DEF Closes, TypeOK, Idle

\* A new profile.
LEMMA AddedDriver ==
  ASSUME TypeOK, NEW u \in User \cup {Nobody}, AddDriver(u)
  PROVE  \E d \in DriverId :
           /\ drivers[d] = None
           /\ drivers' \in [DriverId -> {None} \cup DriverRow]
           /\ drivers'[d] = Profile(u)
           /\ drivers'[d] # None
           /\ drivers'[d].status = "offline"
           /\ \A e \in DriverId \ {d} : drivers'[e] = drivers[e]
           /\ \A v \in User : Profiles(v)' = IF v = u THEN Profiles(v) \cup {d} ELSE Profiles(v)
<1>1. PICK d \in DriverId : drivers[d] = None /\ drivers' = [drivers EXCEPT ![d] = Profile(u)]
  BY DEF AddDriver
<1>2. Profile(u) \in DriverRow /\ Profile(u) # None /\ Profile(u).user = u /\ Profile(u).status = "offline"
  BY DEF Profile, DriverRow, DriverStatus, None
<1>3. /\ drivers' \in [DriverId -> {None} \cup DriverRow]
      /\ drivers'[d] = Profile(u)
      /\ \A e \in DriverId \ {d} : drivers'[e] = drivers[e]
  BY <1>1, <1>2 DEF TypeOK
<1>4. \A v \in User : Profiles(v)' = IF v = u THEN Profiles(v) \cup {d} ELSE Profiles(v)
  BY <1>1, <1>2, <1>3 DEF Profiles
<1> QED
  BY <1>1, <1>2, <1>3, <1>4

\* A status that is set.
LEMMA StatusIsSet ==
  ASSUME TypeOK, NEW d \in DriverId, drivers[d] # None, NEW status \in DriverStatus,
         drivers' = [drivers EXCEPT ![d].status = status]
  PROVE  /\ drivers' \in [DriverId -> {None} \cup DriverRow]
         /\ drivers'[d] # None
         /\ drivers'[d].status = status
         /\ \A e \in DriverId \ {d} : drivers'[e] = drivers[e]
         /\ \A v \in User : Profiles(v)' = Profiles(v)
<1>1. drivers[d] \in DriverRow
  BY DEF TypeOK
<1>2. drivers'[d] = [drivers[d] EXCEPT !.status = status] /\ \A e \in DriverId \ {d} : drivers'[e] = drivers[e]
  BY DEF TypeOK
<1>3. /\ [drivers[d] EXCEPT !.status = status] \in DriverRow
      /\ [drivers[d] EXCEPT !.status = status].status = status
      /\ [drivers[d] EXCEPT !.status = status].user = drivers[d].user
  BY <1>1 DEF DriverRow
<1>4. drivers' \in [DriverId -> {None} \cup DriverRow]
  BY <1>3 DEF TypeOK
<1>5. drivers'[d] # None
  BY <1>2, <1>3, RowsAreLive
<1>6. \A v \in User : Profiles(v)' = Profiles(v)
  BY <1>2, <1>3, <1>5 DEF Profiles
<1> QED
  BY <1>2, <1>3, <1>4, <1>5, <1>6
-----------------------------------------------------------------------------
(* What a step that does not touch a part leaves of it.                     *)

LEMMA RefersStill ==
  ASSUME TypeOK, NEW q \in Request, Refers(q), request'[q] = request[q] \/ request'[q].op = "none",
         \A u \in User : /\ members[u] # "none" => members'[u] # "none"
                         /\ Profiles(u) # {} => Profiles(u)' # {},
         \A d \in DriverId : drivers[d] # None => drivers'[d] # None,
         \A s \in ShiftId : shifts[s] # None => /\ shifts'[s] # None
                                                /\ shifts'[s].driver = shifts[s].driver
  PROVE  Refers(q)'
<1>1. CASE request'[q].op = "none"
  BY <1>1 DEF Refers
<1>2. CASE request'[q] = request[q]
  <2>1. ASSUME request[q].op = "assign"
        PROVE  /\ members'[request'[q].user] # "none"
               /\ ~request[q].missing => Profiles(request[q].user)' # {}
    <3>1. PICK u \in User : u = request[q].user
      BY <2>1, RequestFields
    <3>2. members[u] # "none" /\ (~request[q].missing => Profiles(u) # {})
      BY <2>1, <3>1 DEF Refers
    <3>3. Profiles(request[q].user)' = Profiles(u)'
      BY <1>2, <3>1 DEF Profiles
    <3> QED
      BY <1>2, <3>1, <3>2, <3>3
  <2>2. request[q].op = "start" => drivers'[request[q].driver] # None
    BY RequestFields DEF Refers
  <2>3. request[q].op = "end" =>
          /\ shifts'[request[q].shift] # None
          /\ shifts'[request[q].shift].driver = request[q].driver
    BY RequestFields DEF Refers
  <2> QED
    BY <1>2, <2>1, <2>2, <2>3 DEF Refers
<1> QED
  BY <1>1, <1>2

LEMMA RolesStay ==
  ASSUME Roles, raced \subseteq raced',
         \A u \in User : Profiles(u)' = Profiles(u),
         \A q \in Request : request'[q].op = "assign" => request'[q] = request[q]
  PROVE  Roles'
<1> SUFFICES ASSUME NEW u \in User \ raced'
             PROVE  /\ AtMostOne(Profiles(u)')
                    /\ \A q \in Request : request'[q].op = "assign" /\ request'[q].user = u
                                            /\ request'[q].missing => Profiles(u)' = {}
  BY DEF Roles, AtMostOne
<1>1. u \in User \ raced /\ Profiles(u)' = Profiles(u)
  OBVIOUS
<1> QED
  BY <1>1 DEF Roles, AtMostOne

LEMMA PlatesStay ==
  ASSUME Plates, raced \subseteq raced', vehicles' = vehicles,
         \A q \in Request : request'[q].op = "vehicle" => request'[q] = request[q]
  PROVE  Plates'
<1> SUFFICES ASSUME NEW plate \in Plate \ raced'
             PROVE  /\ AtMostOne(With(plate)')
                    /\ \A q \in Request : request'[q].op = "vehicle" /\ request'[q].plate = plate
                                            => With(plate)' = {}
  BY DEF Plates, AtMostOne
<1>1. plate \in Plate \ raced /\ With(plate)' = With(plate)
  BY DEF With
<1> QED
  BY <1>1 DEF Plates, AtMostOne

LEMMA ShiftsStay ==
  ASSUME TypeOK, Referred, Shifts, ShiftsAgree,
         raced \subseteq raced', edited \subseteq edited', shifts' = shifts,
         \A d \in DriverId : \/ drivers'[d] = drivers[d]
                             \/ drivers[d] = None /\ drivers'[d].status = "offline",
         \A q \in Request : request'[q].op \in {"start", "end"} => request'[q] = request[q]
  PROVE  Shifts' /\ ShiftsAgree'
<1>1. \A d \in DriverId : OnShift(d)' = OnShift(d)
  BY DEF OnShift
<1>2. \A d \in DriverId : drivers[d] = None => OnShift(d) = {}
  BY DEF OnShift, TypeOK, None
<1>3. \A d \in DriverId : \A q \in OnDriver(d) : drivers[d] # None
  BY RequestFields DEF OnDriver, Referred, Refers, TypeOK
<1>4. \A d \in DriverId : OnDriver(d)' \subseteq OnDriver(d)
  BY DEF OnDriver
<1>5. Shifts'
  <2> SUFFICES ASSUME NEW d \in DriverId \ raced'
               PROVE  /\ AtMostOne(OnShift(d)')
                      /\ \A q \in OnDriver(d)' :
                           /\ request'[q].op = "start" => OnShift(d)' = {}
                           /\ request'[q].op = "end" => request'[q].shift \in OnShift(d)'
                           /\ request'[q].status = drivers'[d].status
    BY DEF Shifts, AtMostOne
  <2>1. d \in DriverId \ raced
    OBVIOUS
  <2>2. AtMostOne(OnShift(d)')
    BY <2>1, <1>1 DEF Shifts, AtMostOne
  <2>3. ASSUME NEW q \in OnDriver(d)'
        PROVE  /\ request'[q].op = "start" => OnShift(d)' = {}
               /\ request'[q].op = "end" => request'[q].shift \in OnShift(d)'
               /\ request'[q].status = drivers'[d].status
    <3>1. q \in OnDriver(d) /\ q \in Request /\ request'[q] = request[q]
      BY <1>4 DEF OnDriver
    <3>2. drivers'[d] = drivers[d]
      BY <3>1, <1>3
    <3> QED
      BY <2>1, <3>1, <3>2, <1>1 DEF Shifts
  <2> QED
    BY <2>2, <2>3
<1>6. ShiftsAgree'
  BY <1>1, <1>2 DEF ShiftsAgree
<1> QED
  BY <1>5, <1>6
-----------------------------------------------------------------------------
(* Roles and profiles.                                                      *)

LEMMA InitInv == Init => DriversInv
<1> SUFFICES ASSUME Init PROVE DriversInv
  OBVIOUS
<1>1. /\ \A u \in User : Profiles(u) = {}
      /\ \A d \in DriverId : OnShift(d) = {}
      /\ \A plate \in Plate : With(plate) = {}
      /\ \A q \in Request : request[q].op = "none"
  BY DriversAssumption DEF Init, Profiles, OnShift, With, None, Idle
<1>2. TypeOK
  BY <1>1 DEF Init, TypeOK
<1>3. Referred /\ Roles /\ Plates
  BY <1>1 DEF Referred, Refers, Roles, Plates, AtMostOne
<1>4. Shifts /\ ShiftsAgree
  BY <1>1 DEF Init, Shifts, ShiftsAgree, OnDriver, AtMostOne
<1> QED
  BY <1>2, <1>3, <1>4 DEF DriversInv

LEMMA AcceptInviteInv ==
  ASSUME DriversInv, NEW u \in User, NEW role \in {"member", "driver"}, AcceptInvite(u, role)
  PROVE  DriversInv'
<1>0. /\ members' \in [User -> {"none", "member", "driver"}]
      /\ members'[u] = role /\ \A v \in User \ {u} : members'[v] = members[v]
      /\ members[u] = "none" /\ Profiles(u) = {}
      /\ UNCHANGED <<shifts, vehicles, request, raced, edited>>
  BY DEF AcceptInvite, DriversInv, TypeOK
<1>1. CASE role = "driver"
  <2>1. AddDriver(u)
    BY <1>1 DEF AcceptInvite
  <2>2. PICK d \in DriverId :
           /\ drivers[d] = None
           /\ drivers' \in [DriverId -> {None} \cup DriverRow]
           /\ drivers'[d] # None
           /\ drivers'[d].status = "offline"
           /\ \A e \in DriverId \ {d} : drivers'[e] = drivers[e]
           /\ \A v \in User : Profiles(v)' = IF v = u THEN Profiles(v) \cup {d} ELSE Profiles(v)
    BY <2>1, AddedDriver DEF DriversInv
  <2>3. TypeOK'
    BY <1>0, <1>1, <2>2, SMTT(20) DEF DriversInv, TypeOK
  <2>4. Referred'
    BY <1>0, <1>1, <2>2, RefersStill DEF DriversInv, Referred
  <2>5. Roles'
    <3> SUFFICES ASSUME NEW v \in User \ raced'
                 PROVE  /\ AtMostOne(Profiles(v)')
                        /\ \A q \in Request : request'[q].op = "assign" /\ request'[q].user = v
                                                /\ request'[q].missing => Profiles(v)' = {}
      BY DEF Roles, AtMostOne
    <3>1. CASE v = u
      <4>1. \A q \in Request : request'[q].op = "assign" => request'[q].user # u
        BY <1>0 DEF DriversInv, Referred, Refers
      <4> QED
        BY <3>1, <4>1, <2>2, <1>0 DEF AtMostOne
    <3>2. CASE v # u
      BY <3>2, <2>2, <1>0 DEF DriversInv, Roles, AtMostOne
    <3> QED
      BY <3>1, <3>2
  <2>6. Plates'
    BY <1>0, PlatesStay DEF DriversInv
  <2>7. Shifts' /\ ShiftsAgree'
    BY <1>0, <2>2, ShiftsStay DEF DriversInv
  <2> QED
    BY <2>3, <2>4, <2>5, <2>6, <2>7 DEF DriversInv
<1>2. CASE role = "member"
  <2>1. drivers' = drivers
    BY <1>2 DEF AcceptInvite
  <2>2. \A v \in User : Profiles(v)' = Profiles(v)
    BY <2>1 DEF Profiles
  <2>3. TypeOK'
    BY <1>0, <1>2, <2>1, <2>2 DEF DriversInv, TypeOK
  <2>4. Referred'
    BY <1>0, <1>2, <2>1, <2>2, RefersStill DEF DriversInv, Referred
  <2>5. Roles' /\ Plates' /\ Shifts' /\ ShiftsAgree'
    BY <1>0, <2>1, <2>2, RolesStay, PlatesStay, ShiftsStay DEF DriversInv
  <2> QED
    BY <2>3, <2>4, <2>5 DEF DriversInv
<1> QED
  BY <1>1, <1>2

LEMMA AssignRoleInv ==
  ASSUME DriversInv, NEW r \in Request, NEW u \in User, AssignRole(r, u)
  PROVE  DriversInv'
<1> DEFINE row == [op |-> "assign", user |-> u, missing |-> Profiles(u) = {}]
<1>0. /\ row \in RequestRow
      /\ row.op = "assign" /\ row.user = u /\ row.missing = (Profiles(u) = {})
      /\ members[u] # "none"
  BY DEF AssignRole, RequestRow
<1> HIDE DEF row
<1>1. /\ request' \in [Request -> {Idle} \cup RequestRow]
      /\ request'[r] = row
      /\ \A q \in Request \ {r} : request'[q] = request[q]
      /\ UNCHANGED <<members, drivers, shifts, vehicles, raced, edited>>
  BY <1>0, OpenFrame DEF AssignRole, DriversInv, row
<1>2. \A v \in User : Profiles(v)' = Profiles(v)
  BY <1>1 DEF Profiles
<1>3. TypeOK'
  BY <1>1, <1>2 DEF DriversInv, TypeOK
<1>4. Referred'
  <2>1. Refers(r)'
    <3>1. Profiles(request[r].user)' = Profiles(u)
      BY <1>0, <1>1 DEF Profiles
    <3> QED
      BY <1>0, <1>1, <3>1 DEF Refers
  <2>2. \A q \in Request \ {r} : Refers(q)'
    BY <1>1, <1>2, RefersStill DEF DriversInv, Referred
  <2> QED
    BY <2>1, <2>2 DEF Referred
<1>5. Roles'
  <2> SUFFICES ASSUME NEW v \in User \ raced
               PROVE  /\ AtMostOne(Profiles(v)')
                      /\ \A q \in Request : request'[q].op = "assign" /\ request'[q].user = v
                                              /\ request'[q].missing => Profiles(v)' = {}
    BY <1>1 DEF Roles, AtMostOne
  <2>1. Profiles(v)' = Profiles(v) /\ AtMostOne(Profiles(v))
    BY <1>2 DEF DriversInv, Roles
  <2>2. \A q \in Request \ {r} : request[q].op = "assign" /\ request[q].user = v
                                   /\ request[q].missing => Profiles(v) = {}
    BY DEF DriversInv, Roles
  <2>3. row.user = v /\ row.missing => Profiles(v) = {}
    BY <1>0
  <2> QED
    BY <1>1, <2>1, <2>2, <2>3 DEF AtMostOne
<1>6. Plates'
  BY <1>0, <1>1, PlatesStay DEF DriversInv
<1>7. Shifts' /\ ShiftsAgree'
  BY <1>0, <1>1, ShiftsStay DEF DriversInv
<1> QED
  BY <1>3, <1>4, <1>5, <1>6, <1>7 DEF DriversInv

LEMMA CommitRoleInv ==
  ASSUME DriversInv, NEW r \in Request, CommitRole(r)
  PROVE  DriversInv'
<1> DEFINE u == request[r].user
           others == {q \in Request : request[q].op = "assign" /\ request[q].user = u /\ request[q].missing}
<1>0. /\ request[r].op = "assign" /\ Closes(r)
      /\ \/ /\ members[u] = "member"
            /\ members' = [members EXCEPT ![u] = "driver"]
            /\ IF request[r].missing
               THEN AddDriver(u) /\ Meets(r, u, others)
               ELSE UNCHANGED <<drivers, raced>>
         \/ /\ members[u] = "driver"
            /\ UNCHANGED <<members, drivers, raced>>
      /\ UNCHANGED <<shifts, vehicles, edited>>
  BY DEF CommitRole
<1>1. u \in User /\ request[r].missing \in BOOLEAN
  BY <1>0, RequestFields DEF DriversInv
<1>2. /\ request' \in [Request -> {Idle} \cup RequestRow]
      /\ request'[r].op = "none"
      /\ \A q \in Request \ {r} : request'[q] = request[q]
      /\ \A q \in Request : request'[q] = request[q] \/ request'[q].op = "none"
  BY <1>0, CloseFrame DEF DriversInv
<1>3. Refers(r)
  BY DEF DriversInv, Referred
<1> HIDE DEF u, others
<1>4. CASE members[u] = "member" /\ request[r].missing
  <2>1. /\ members' = [members EXCEPT ![u] = "driver"]
        /\ AddDriver(u) /\ Meets(r, u, others)
        /\ UNCHANGED <<shifts, vehicles, edited>>
    BY <1>0, <1>4
  <2>2. /\ members' \in [User -> {"none", "member", "driver"}]
        /\ members'[u] = "driver"
        /\ \A v \in User \ {u} : members'[v] = members[v]
    BY <1>1, <2>1 DEF DriversInv, TypeOK
  <2>3. PICK d \in DriverId :
           /\ drivers[d] = None
           /\ drivers' \in [DriverId -> {None} \cup DriverRow]
           /\ drivers'[d] # None
           /\ drivers'[d].status = "offline"
           /\ \A e \in DriverId \ {d} : drivers'[e] = drivers[e]
           /\ \A v \in User : Profiles(v)' = IF v = u THEN Profiles(v) \cup {d} ELSE Profiles(v)
    BY <1>1, <2>1, AddedDriver DEF DriversInv
  <2>4. raced \subseteq raced' /\ raced' \subseteq raced \cup {u} /\ (u \notin raced' => others \subseteq {r})
    BY <2>1 DEF Meets
  <2>5. TypeOK'
    BY <1>1, <1>2, <2>1, <2>2, <2>3, <2>4, SMTT(20) DEF DriversInv, TypeOK
  <2>6. Referred'
    BY <1>2, <2>1, <2>2, <2>3, RefersStill DEF DriversInv, Referred
  <2>7. Roles'
    <3> SUFFICES ASSUME NEW v \in User \ raced'
                 PROVE  /\ AtMostOne(Profiles(v)')
                        /\ \A q \in Request : request'[q].op = "assign" /\ request'[q].user = v
                                                /\ request'[q].missing => Profiles(v)' = {}
      BY DEF Roles, AtMostOne
    <3>1. v \notin raced
      BY <2>4
    <3>2. CASE v = u
      <4>1. Profiles(u) = {}
        BY <1>0, <1>4, <3>1, <3>2 DEF DriversInv, Roles, u
      <4>2. \A q \in Request : ~(request'[q].op = "assign" /\ request'[q].user = u /\ request'[q].missing)
        BY <1>2, <2>4, <3>2 DEF others
      <4> QED
        BY <2>3, <3>2, <4>1, <4>2 DEF AtMostOne
    <3>3. CASE v # u
      <4>1. Profiles(v)' = Profiles(v)
        BY <2>3, <3>3
      <4> QED
        BY <1>2, <3>1, <4>1 DEF DriversInv, Roles, AtMostOne
    <3> QED
      BY <3>2, <3>3
  <2>8. Plates'
    BY <1>2, <2>1, <2>4, PlatesStay DEF DriversInv
  <2>9. Shifts' /\ ShiftsAgree'
    BY <1>2, <2>1, <2>3, <2>4, ShiftsStay DEF DriversInv
  <2> QED
    BY <2>5, <2>6, <2>7, <2>8, <2>9 DEF DriversInv
<1>5. CASE ~(members[u] = "member" /\ request[r].missing)
  <2>1. /\ UNCHANGED <<drivers, raced, shifts, vehicles, edited>>
        /\ \/ members' = members
           \/ members' = [members EXCEPT ![u] = "driver"] /\ ~request[r].missing
    BY <1>0, <1>1, <1>5
  <2>2. \A v \in User : Profiles(v)' = Profiles(v)
    BY <2>1 DEF Profiles
  <2>3. /\ members' \in [User -> {"none", "member", "driver"}]
        /\ \A v \in User : members[v] # "none" => members'[v] # "none"
        /\ \A v \in User : members'[v] = "none" => members[v] = "none"
        /\ \A v \in User : members'[v] = "driver" => members[v] = "driver" \/ Profiles(v) # {}
    BY <1>0, <1>1, <1>3, <2>1 DEF DriversInv, TypeOK, Refers, u
  <2>4. TypeOK'
    BY <1>2, <2>1, <2>2, <2>3 DEF DriversInv, TypeOK
  <2>5. Referred'
    BY <1>2, <2>1, <2>2, <2>3, RefersStill DEF DriversInv, Referred
  <2>6. Roles' /\ Plates' /\ Shifts' /\ ShiftsAgree'
    BY <1>2, <2>1, <2>2, RolesStay, PlatesStay, ShiftsStay DEF DriversInv
  <2> QED
    BY <2>4, <2>5, <2>6 DEF DriversInv
<1> QED
  BY <1>4, <1>5

LEMMA RevokeRoleInv ==
  ASSUME DriversInv, NEW u \in User, RevokeRole(u)
  PROVE  DriversInv'
<1>1. UNCHANGED <<drivers, shifts, vehicles, request, raced, edited>>
  BY DEF RevokeRole
<1>2. \A v \in User : Profiles(v)' = Profiles(v)
  BY <1>1 DEF Profiles
<1>3. /\ members' \in [User -> {"none", "member", "driver"}]
      /\ \A v \in User : members'[v] = "none" <=> members[v] = "none"
      /\ \A v \in User : members'[v] = "driver" => members[v] = "driver"
  BY DEF RevokeRole, DriversInv, TypeOK
<1>4. TypeOK'
  BY <1>1, <1>2, <1>3 DEF DriversInv, TypeOK
<1>5. Referred'
  BY <1>1, <1>2, <1>3, RefersStill DEF DriversInv, Referred
<1>6. Roles' /\ Plates' /\ Shifts' /\ ShiftsAgree'
  BY <1>1, <1>2, RolesStay, PlatesStay, ShiftsStay DEF DriversInv
<1> QED
  BY <1>4, <1>5, <1>6 DEF DriversInv

LEMMA CreateDriverInv ==
  ASSUME DriversInv, NEW u \in User \cup {Nobody}, CreateDriver(u)
  PROVE  DriversInv'
<1>1. /\ AddDriver(u)
      /\ u \in User => members[u] # "none" /\ raced' = raced \cup {u}
      /\ u = Nobody => raced' = raced
      /\ UNCHANGED <<members, shifts, vehicles, request, edited>>
  BY DriversAssumption DEF CreateDriver
<1>2. PICK d \in DriverId :
         /\ drivers[d] = None
         /\ drivers' \in [DriverId -> {None} \cup DriverRow]
         /\ drivers'[d] # None
         /\ drivers'[d].status = "offline"
         /\ \A e \in DriverId \ {d} : drivers'[e] = drivers[e]
         /\ \A v \in User : Profiles(v)' = IF v = u THEN Profiles(v) \cup {d} ELSE Profiles(v)
  BY <1>1, AddedDriver DEF DriversInv
<1>3. raced \subseteq raced' /\ raced' \subseteq raced \cup User
  BY <1>1
<1>4. TypeOK'
  BY <1>1, <1>2, <1>3 DEF DriversInv, TypeOK
<1>5. Referred'
  BY <1>1, <1>2, RefersStill DEF DriversInv, Referred
<1>6. Roles'
  <2>1. \A v \in User \ raced' : Profiles(v)' = Profiles(v) /\ v \notin raced
    BY <1>1, <1>2, <1>3
  <2> QED
    BY <1>1, <2>1 DEF DriversInv, Roles, AtMostOne
<1>7. Plates'
  BY <1>1, <1>3, PlatesStay DEF DriversInv
<1>8. Shifts' /\ ShiftsAgree'
  BY <1>1, <1>2, <1>3, ShiftsStay DEF DriversInv
<1> QED
  BY <1>4, <1>5, <1>6, <1>7, <1>8 DEF DriversInv

LEMMA UpdateDriverInv ==
  ASSUME DriversInv, NEW d \in DriverId, NEW status \in DriverStatus, UpdateDriver(d, status)
  PROVE  DriversInv'
<1>1. /\ drivers[d] # None
      /\ drivers' = [drivers EXCEPT ![d].status = status]
      /\ edited' = edited \cup {d}
      /\ raced' = IF OnDriver(d) = {} THEN raced ELSE raced \cup {d}
      /\ UNCHANGED <<members, shifts, vehicles, request>>
  BY DEF UpdateDriver
<1>2. /\ drivers' \in [DriverId -> {None} \cup DriverRow]
      /\ drivers'[d] # None
      /\ \A e \in DriverId \ {d} : drivers'[e] = drivers[e]
      /\ \A v \in User : Profiles(v)' = Profiles(v)
  BY <1>1, StatusIsSet DEF DriversInv
<1>3. /\ raced \subseteq raced' /\ raced' \subseteq raced \cup {d}
      /\ d \notin raced' => OnDriver(d) = {}
  BY <1>1
<1>4. TypeOK'
  BY <1>1, <1>2, <1>3 DEF DriversInv, TypeOK
<1>5. Referred'
  BY <1>1, <1>2, RefersStill DEF DriversInv, Referred
<1>6. Roles' /\ Plates'
  BY <1>1, <1>2, <1>3, RolesStay, PlatesStay DEF DriversInv
<1>7. \A e \in DriverId : OnShift(e)' = OnShift(e) /\ OnDriver(e)' = OnDriver(e)
  BY <1>1 DEF OnShift, OnDriver
<1>8. Shifts'
  <2> SUFFICES ASSUME NEW e \in DriverId \ raced'
               PROVE  /\ AtMostOne(OnShift(e)')
                      /\ \A q \in OnDriver(e)' :
                           /\ request'[q].op = "start" => OnShift(e)' = {}
                           /\ request'[q].op = "end" => request'[q].shift \in OnShift(e)'
                           /\ request'[q].status = drivers'[e].status
    BY DEF Shifts, AtMostOne
  <2>1. e \notin raced /\ (e = d => OnDriver(e) = {})
    BY <1>3
  <2> QED
    BY <1>1, <1>2, <1>7, <2>1 DEF DriversInv, Shifts, AtMostOne
<1>9. ShiftsAgree'
  BY <1>1, <1>2, <1>3, <1>7 DEF DriversInv, ShiftsAgree
<1> QED
  BY <1>4, <1>5, <1>6, <1>8, <1>9 DEF DriversInv

-----------------------------------------------------------------------------
(* Shifts.                                                                  *)

\* A request for d that has found all as it is, and knows the status.
LEMMA OpenShift ==
  ASSUME DriversInv, NEW r \in Request, NEW d \in DriverId, drivers[d] # None,
         NEW row \in RequestRow, Opens(r, row),
         row.op \in {"start", "end"}, row.driver = d, row.status = drivers[d].status,
         row.op = "start" => OnShift(d) = {},
         row.op = "end" => row.shift \in OnShift(d)
  PROVE  DriversInv'
<1>1. /\ request' \in [Request -> {Idle} \cup RequestRow]
      /\ request'[r] = row
      /\ \A q \in Request \ {r} : request'[q] = request[q]
      /\ UNCHANGED <<members, drivers, shifts, vehicles, raced, edited>>
  BY OpenFrame DEF DriversInv
<1>2. /\ \A v \in User : Profiles(v)' = Profiles(v)
      /\ \A e \in DriverId : OnShift(e)' = OnShift(e)
  BY <1>1 DEF Profiles, OnShift
<1>3. TypeOK'
  BY <1>1, <1>2 DEF DriversInv, TypeOK
<1>4. Referred'
  <2>1. Refers(r)'
    <3>1. row.op = "end" => shifts[row.shift] # None /\ shifts[row.shift].driver = d
      BY DEF OnShift, None
    <3> QED
      BY <1>1, <3>1 DEF Refers
  <2>2. \A q \in Request \ {r} : Refers(q)'
    BY <1>1, <1>2, RefersStill DEF DriversInv, Referred
  <2> QED
    BY <2>1, <2>2 DEF Referred
<1>5. Roles' /\ Plates'
  BY <1>1, <1>2, RolesStay, PlatesStay DEF DriversInv
<1>6. Shifts'
  <2> SUFFICES ASSUME NEW e \in DriverId \ raced
               PROVE  /\ AtMostOne(OnShift(e)')
                      /\ \A q \in OnDriver(e)' :
                           /\ request'[q].op = "start" => OnShift(e)' = {}
                           /\ request'[q].op = "end" => request'[q].shift \in OnShift(e)'
                           /\ request'[q].status = drivers'[e].status
    BY <1>1 DEF Shifts, AtMostOne
  <2>1. ASSUME NEW q \in OnDriver(e)'
        PROVE  /\ request'[q].op = "start" => OnShift(e)' = {}
               /\ request'[q].op = "end" => request'[q].shift \in OnShift(e)'
               /\ request'[q].status = drivers'[e].status
    <3>1. CASE q = r
      <4>1. e = d
        BY <1>1, <2>1, <3>1 DEF OnDriver
      <4> QED
        BY <1>1, <1>2, <3>1, <4>1
    <3>2. CASE q # r
      <4>1. q \in OnDriver(e) /\ request'[q] = request[q]
        BY <1>1, <2>1, <3>2 DEF OnDriver
      <4> QED
        BY <1>1, <1>2, <4>1 DEF DriversInv, Shifts
    <3> QED
      BY <3>1, <3>2
  <2>2. AtMostOne(OnShift(e)')
    BY <1>2 DEF DriversInv, Shifts, AtMostOne
  <2> QED
    BY <2>1, <2>2
<1>7. ShiftsAgree'
  BY <1>1, <1>2 DEF DriversInv, ShiftsAgree
<1> QED
  BY <1>3, <1>4, <1>5, <1>6, <1>7 DEF DriversInv

LEMMA StartShiftInv ==
  ASSUME DriversInv, NEW r \in Request, NEW d \in DriverId, StartShift(r, d)
  PROVE  DriversInv'
<1> DEFINE row == [op |-> "start", driver |-> d, status |-> drivers[d].status]
<1>1. drivers[d] \in DriverRow
  BY DEF StartShift, DriversInv, TypeOK
<1>2. row \in RequestRow /\ row.op = "start" /\ row.driver = d /\ row.status = drivers[d].status
  BY <1>1, RowsAreLive DEF RequestRow
<1> QED
  BY <1>2, OpenShift DEF StartShift

LEMMA EndShiftInv ==
  ASSUME DriversInv, NEW r \in Request, NEW s \in ShiftId, EndShift(r, s)
  PROVE  DriversInv'
<1> DEFINE d == shifts[s].driver
           row == [op |-> "end", driver |-> d, shift |-> s, status |-> drivers[d].status]
<1>1. shifts[s].state = "active" /\ Opens(r, row)
  BY DEF EndShift
<1>2. shifts[s] # None /\ d \in DriverId
  BY <1>1 DEF DriversInv, TypeOK, None
<1>3. drivers[d] # None /\ drivers[d] \in DriverRow /\ s \in OnShift(d)
  BY <1>1, <1>2 DEF DriversInv, TypeOK, OnShift
<1>4. /\ row \in RequestRow /\ row.op = "end" /\ row.driver = d /\ row.shift = s
      /\ row.status = drivers[d].status
  BY <1>2, <1>3, RowsAreLive DEF RequestRow
<1> QED
  BY <1>1, <1>2, <1>3, <1>4, OpenShift

\* The status after a request that wants it so.
LEMMA StatusFollows ==
  ASSUME TypeOK, NEW d \in DriverId, drivers[d] # None, NEW read, NEW status \in DriverStatus,
         SetStatus(d, read, status)
  PROVE  /\ drivers' \in [DriverId -> {None} \cup DriverRow]
         /\ drivers'[d] # None
         /\ \A e \in DriverId \ {d} : drivers'[e] = drivers[e]
         /\ \A v \in User : Profiles(v)' = Profiles(v)
         /\ read = drivers[d].status => drivers'[d].status = status
<1>1. CASE read = status
  <2>1. drivers' = drivers
    BY <1>1 DEF SetStatus
  <2> QED
    BY <1>1, <2>1 DEF TypeOK, Profiles
<1>2. CASE read # status
  BY <1>2, StatusIsSet DEF SetStatus
<1> QED
  BY <1>1, <1>2

\* The commit of a shift request: d has no other request if it is not raced,
\* and its shifts and status agree afterwards; the other drivers keep theirs.
LEMMA CommitShift ==
  ASSUME DriversInv, NEW r \in Request, NEW d \in DriverId, drivers[d] # None,
         Closes(r), Meets(r, d, OnDriver(d)),
         NEW status \in DriverStatus, SetStatus(d, request[r].status, status),
         edited' = edited \ {d},
         UNCHANGED <<members, vehicles>>,
         shifts' \in [ShiftId -> {None} \cup [state : {"active", "ended"}, driver : DriverId]],
         \A s \in ShiftId : shifts'[s] # shifts[s] =>
                              /\ shifts'[s] # None
                              /\ shifts'[s].driver = d
                              /\ shifts[s] # None => shifts[s].driver = d,
         d \notin raced' => AtMostOne(OnShift(d)')
                              /\ (drivers'[d].status = "offline" <=> OnShift(d)' = {})
  PROVE  DriversInv'
<1>1. /\ request' \in [Request -> {Idle} \cup RequestRow]
      /\ request'[r].op = "none"
      /\ \A q \in Request \ {r} : request'[q] = request[q]
  BY CloseFrame DEF DriversInv
<1>2. /\ drivers' \in [DriverId -> {None} \cup DriverRow]
      /\ drivers'[d] # None
      /\ \A e \in DriverId \ {d} : drivers'[e] = drivers[e]
      /\ \A v \in User : Profiles(v)' = Profiles(v)
  BY StatusFollows DEF DriversInv
<1>3. /\ raced \subseteq raced' /\ raced' \subseteq raced \cup {d}
      /\ d \notin raced' => OnDriver(d) \subseteq {r}
  BY DEF Meets
<1>4. \A e \in DriverId \ {d} : OnShift(e)' = OnShift(e)
  BY DEF OnShift, None
<1>5. \A s \in ShiftId : /\ shifts'[s] # None => drivers'[shifts'[s].driver] # None
                         /\ shifts[s] # None => shifts'[s] # None /\ shifts'[s].driver = shifts[s].driver
  BY <1>2 DEF DriversInv, TypeOK
<1>6. TypeOK'
  BY <1>1, <1>2, <1>3, <1>5 DEF DriversInv, TypeOK
<1>7. Referred'
  BY <1>1, <1>2, <1>5, RefersStill DEF DriversInv, Referred
<1>8. Roles' /\ Plates'
  BY <1>1, <1>2, <1>3, RolesStay, PlatesStay DEF DriversInv
<1>9. Shifts'
  <2> SUFFICES ASSUME NEW e \in DriverId \ raced'
               PROVE  /\ AtMostOne(OnShift(e)')
                      /\ \A q \in OnDriver(e)' :
                           /\ request'[q].op = "start" => OnShift(e)' = {}
                           /\ request'[q].op = "end" => request'[q].shift \in OnShift(e)'
                           /\ request'[q].status = drivers'[e].status
    BY DEF Shifts, AtMostOne
  <2>1. OnDriver(e)' \subseteq OnDriver(e) \ {r} /\ \A q \in OnDriver(e)' : request'[q] = request[q]
    BY <1>1 DEF OnDriver
  <2>2. CASE e = d
    BY <1>3, <2>1, <2>2
  <2>3. CASE e # d
    <3>1. OnShift(e)' = OnShift(e) /\ drivers'[e] = drivers[e] /\ e \notin raced
      BY <1>2, <1>3, <1>4, <2>3
    <3> QED
      BY <2>1, <3>1 DEF DriversInv, Shifts, AtMostOne
  <2> QED
    BY <2>2, <2>3
<1>10. ShiftsAgree'
  BY <1>2, <1>3, <1>4 DEF DriversInv, ShiftsAgree
<1> QED
  BY <1>6, <1>7, <1>8, <1>9, <1>10 DEF DriversInv

LEMMA CommitStartInv ==
  ASSUME DriversInv, NEW r \in Request, CommitStart(r)
  PROVE  DriversInv'
<1>0. PICK d \in DriverId : d = request[r].driver
  BY RequestFields DEF CommitStart, DriversInv
<1>1. PICK s \in ShiftId :
         /\ shifts[s] = None
         /\ shifts' = [shifts EXCEPT ![s] = [state |-> "active", driver |-> d]]
  BY <1>0 DEF CommitStart
<1>2. /\ request[r].op = "start"
      /\ SetStatus(d, request[r].status, "available")
      /\ edited' = edited \ {d}
      /\ Meets(r, d, OnDriver(d))
      /\ Closes(r)
      /\ UNCHANGED <<members, vehicles>>
  BY <1>0 DEF CommitStart
<1>3. /\ d \in DriverId /\ drivers[d] # None /\ r \in OnDriver(d)
  BY <1>0, <1>2 DEF DriversInv, Referred, Refers, OnDriver
<1>4. /\ shifts' \in [ShiftId -> {None} \cup [state : {"active", "ended"}, driver : DriverId]]
      /\ shifts'[s].state = "active" /\ shifts'[s].driver = d /\ shifts'[s] # None
      /\ \A t \in ShiftId \ {s} : shifts'[t] = shifts[t]
  BY <1>1, <1>3 DEF DriversInv, TypeOK, None
<1>5. OnShift(d)' = OnShift(d) \cup {s}
  BY <1>1, <1>4 DEF OnShift, None
<1>6. ASSUME d \notin raced'
      PROVE  AtMostOne(OnShift(d)') /\ (drivers'[d].status = "offline" <=> OnShift(d)' = {})
  <2>1. d \notin raced
    BY <1>2, <1>6 DEF Meets
  <2>2. OnShift(d) = {} /\ request[r].status = drivers[d].status
    BY <1>2, <1>3, <2>1 DEF DriversInv, Shifts
  <2>3. drivers'[d].status = "available"
    BY <1>2, <1>3, <2>2, StatusFollows DEF DriversInv, DriverStatus
  <2> QED
    BY <1>5, <2>2, <2>3 DEF AtMostOne
<1>7. "available" \in DriverStatus
  BY DEF DriverStatus
<1>8. \A t \in ShiftId : shifts'[t] # shifts[t] =>
                           /\ shifts'[t] # None
                           /\ shifts'[t].driver = d
                           /\ shifts[t] # None => shifts[t].driver = d
  BY <1>1, <1>4
<1> QED
  BY <1>2, <1>3, <1>4, <1>6, <1>7, <1>8, CommitShift

LEMMA CommitEndInv ==
  ASSUME DriversInv, NEW r \in Request, CommitEnd(r)
  PROVE  DriversInv'
<1>0. PICK d \in DriverId, s \in ShiftId : d = request[r].driver /\ s = request[r].shift
  BY RequestFields DEF CommitEnd, DriversInv
<1>1. /\ request[r].op = "end"
      /\ shifts' = [shifts EXCEPT ![s].state = "ended"]
      /\ SetStatus(d, request[r].status, "offline")
      /\ edited' = edited \ {d}
      /\ Meets(r, d, OnDriver(d))
      /\ Closes(r)
      /\ UNCHANGED <<members, vehicles>>
  BY <1>0 DEF CommitEnd
<1>2. /\ d \in DriverId /\ s \in ShiftId /\ r \in OnDriver(d)
      /\ shifts[s] # None /\ shifts[s].driver = d
      /\ shifts[s] \in [state : {"active", "ended"}, driver : DriverId]
  BY <1>0, <1>1 DEF DriversInv, Referred, Refers, OnDriver, TypeOK
<1>3. drivers[d] # None
  BY <1>2 DEF DriversInv, TypeOK
<1>4. shifts'[s] = [shifts[s] EXCEPT !.state = "ended"] /\ \A t \in ShiftId \ {s} : shifts'[t] = shifts[t]
  BY <1>1, <1>2 DEF DriversInv, TypeOK
<1>5. /\ [shifts[s] EXCEPT !.state = "ended"] \in [state : {"active", "ended"}, driver : DriverId]
      /\ shifts'[s].state = "ended" /\ shifts'[s].driver = d /\ shifts'[s] # None
  BY <1>2, <1>4 DEF None
<1>6. shifts' \in [ShiftId -> {None} \cup [state : {"active", "ended"}, driver : DriverId]]
  BY <1>1, <1>2, <1>5 DEF DriversInv, TypeOK
<1>7. OnShift(d)' = OnShift(d) \ {s}
  BY <1>4, <1>5 DEF OnShift
<1>8. ASSUME d \notin raced'
      PROVE  AtMostOne(OnShift(d)') /\ (drivers'[d].status = "offline" <=> OnShift(d)' = {})
  <2>1. d \notin raced
    BY <1>1, <1>8 DEF Meets
  <2>2. AtMostOne(OnShift(d)) /\ s \in OnShift(d) /\ request[r].status = drivers[d].status
    BY <1>0, <1>1, <1>2, <2>1 DEF DriversInv, Shifts
  <2>3. drivers'[d].status = "offline"
    BY <1>1, <1>2, <1>3, <2>2, StatusFollows DEF DriversInv, DriverStatus
  <2> QED
    BY <1>7, <2>2, <2>3 DEF AtMostOne
<1>9. "offline" \in DriverStatus
  BY DEF DriverStatus
<1>10. \A t \in ShiftId : shifts'[t] # shifts[t] =>
                            /\ shifts'[t] # None
                            /\ shifts'[t].driver = d
                            /\ shifts[t] # None => shifts[t].driver = d
  BY <1>2, <1>4, <1>5
<1> QED
  BY <1>1, <1>2, <1>3, <1>6, <1>8, <1>9, <1>10, CommitShift

-----------------------------------------------------------------------------
(* Vehicles, and requests that end.                                         *)

LEMMA CreateVehicleInv ==
  ASSUME DriversInv, NEW r \in Request, NEW plate \in Plate, CreateVehicle(r, plate)
  PROVE  DriversInv'
<1> DEFINE row == [op |-> "vehicle", plate |-> plate]
<1>0. With(plate) = {} /\ Opens(r, row) /\ row \in RequestRow /\ row.op = "vehicle" /\ row.plate = plate
  BY DEF CreateVehicle, RequestRow
<1> HIDE DEF row
<1>1. /\ request' \in [Request -> {Idle} \cup RequestRow]
      /\ request'[r] = row
      /\ \A q \in Request \ {r} : request'[q] = request[q]
      /\ UNCHANGED <<members, drivers, shifts, vehicles, raced, edited>>
  BY <1>0, OpenFrame DEF DriversInv
<1>2. /\ \A v \in User : Profiles(v)' = Profiles(v)
      /\ \A p \in Plate : With(p)' = With(p)
  BY <1>1 DEF Profiles, With
<1>3. TypeOK'
  BY <1>1, <1>2 DEF DriversInv, TypeOK
<1>4. Referred'
  <2>1. Refers(r)'
    BY <1>0, <1>1 DEF Refers
  <2>2. \A q \in Request \ {r} : Refers(q)'
    BY <1>1, <1>2, RefersStill DEF DriversInv, Referred
  <2> QED
    BY <2>1, <2>2 DEF Referred
<1>5. Roles' /\ Shifts' /\ ShiftsAgree'
  BY <1>0, <1>1, <1>2, RolesStay, ShiftsStay DEF DriversInv
<1>6. Plates'
  <2> SUFFICES ASSUME NEW p \in Plate \ raced
               PROVE  /\ AtMostOne(With(p)')
                      /\ \A q \in Request : request'[q].op = "vehicle" /\ request'[q].plate = p
                                              => With(p)' = {}
    BY <1>1 DEF Plates, AtMostOne
  <2>1. \A q \in Request \ {r} : request[q].op = "vehicle" /\ request[q].plate = p => With(p) = {}
    BY DEF DriversInv, Plates
  <2>2. AtMostOne(With(p))
    BY DEF DriversInv, Plates
  <2> QED
    BY <1>0, <1>1, <1>2, <2>1, <2>2 DEF AtMostOne
<1> QED
  BY <1>3, <1>4, <1>5, <1>6 DEF DriversInv

LEMMA CommitVehicleInv ==
  ASSUME DriversInv, NEW r \in Request, CommitVehicle(r)
  PROVE  DriversInv'
<1>0. PICK plate \in Plate : plate = request[r].plate
  BY RequestFields DEF CommitVehicle, DriversInv
<1> DEFINE others == {q \in Request : request[q].op = "vehicle" /\ request[q].plate = plate}
<1>1. PICK v \in VehicleId : vehicles[v] = Nobody /\ vehicles' = [vehicles EXCEPT ![v] = plate]
  BY <1>0 DEF CommitVehicle
<1>2. /\ request[r].op = "vehicle" /\ Meets(r, plate, others) /\ Closes(r)
      /\ UNCHANGED <<members, drivers, shifts, edited>>
  BY <1>0 DEF CommitVehicle
<1>4. /\ request' \in [Request -> {Idle} \cup RequestRow]
      /\ request'[r].op = "none"
      /\ \A q \in Request \ {r} : request'[q] = request[q]
  BY <1>2, CloseFrame DEF DriversInv
<1>5. /\ raced \subseteq raced' /\ raced' \subseteq raced \cup {plate}
      /\ plate \notin raced' => others \subseteq {r}
  BY <1>2 DEF Meets
<1>6. \A u \in User : Profiles(u)' = Profiles(u)
  BY <1>2 DEF Profiles
<1>7. /\ vehicles' \in [VehicleId -> {Nobody} \cup Plate]
      /\ With(plate)' = With(plate) \cup {v}
      /\ \A p \in Plate \ {plate} : With(p)' = With(p)
  BY <1>1, DriversAssumption DEF DriversInv, TypeOK, With
<1>8. TypeOK'
  BY <1>2, <1>4, <1>5, <1>6, <1>7 DEF DriversInv, TypeOK
<1>9. Referred'
  BY <1>2, <1>4, <1>6, RefersStill DEF DriversInv, Referred
<1>10. Roles' /\ Shifts' /\ ShiftsAgree'
  BY <1>2, <1>4, <1>5, <1>6, RolesStay, ShiftsStay DEF DriversInv
<1>11. Plates'
  <2> SUFFICES ASSUME NEW p \in Plate \ raced'
               PROVE  /\ AtMostOne(With(p)')
                      /\ \A q \in Request : request'[q].op = "vehicle" /\ request'[q].plate = p
                                              => With(p)' = {}
    BY DEF Plates, AtMostOne
  <2>0. p \notin raced
    BY <1>5
  <2>1. CASE p = plate
    <3>1. With(p) = {}
      BY <1>0, <1>2, <2>0, <2>1 DEF DriversInv, Plates
    <3>2. \A q \in Request : ~(request'[q].op = "vehicle" /\ request'[q].plate = p)
      BY <1>4, <1>5, <2>1
    <3> QED
      BY <1>7, <2>1, <3>1, <3>2 DEF AtMostOne
  <2>2. CASE p # plate
    <3>1. With(p)' = With(p)
      BY <1>7, <2>2
    <3> QED
      BY <1>4, <2>0, <3>1 DEF DriversInv, Plates, AtMostOne
  <2> QED
    BY <2>1, <2>2
<1> QED
  BY <1>8, <1>9, <1>10, <1>11 DEF DriversInv

LEMMA DieInv ==
  ASSUME DriversInv, NEW r \in Request, Die(r)
  PROVE  DriversInv'
<1>1. /\ request' \in [Request -> {Idle} \cup RequestRow]
      /\ request'[r].op = "none"
      /\ \A q \in Request \ {r} : request'[q] = request[q]
      /\ UNCHANGED <<members, drivers, shifts, vehicles, raced, edited>>
  BY CloseFrame DEF Die, DriversInv
<1>2. \A v \in User : Profiles(v)' = Profiles(v)
  BY <1>1 DEF Profiles
<1>3. TypeOK'
  BY <1>1, <1>2 DEF DriversInv, TypeOK
<1>4. Referred'
  BY <1>1, <1>2, RefersStill DEF DriversInv, Referred
<1>5. Roles' /\ Plates' /\ Shifts' /\ ShiftsAgree'
  BY <1>1, <1>2, RolesStay, PlatesStay, ShiftsStay DEF DriversInv
<1> QED
  BY <1>3, <1>4, <1>5 DEF DriversInv

LEMMA StutterInv == DriversInv /\ UNCHANGED vars => DriversInv'
<1> SUFFICES ASSUME DriversInv, UNCHANGED vars PROVE DriversInv'
  OBVIOUS
<1>1. /\ \A v \in User : Profiles(v)' = Profiles(v)
      /\ UNCHANGED <<members, drivers, shifts, vehicles, request, raced, edited>>
  BY DEF vars, Profiles
<1>2. TypeOK'
  BY <1>1 DEF DriversInv, TypeOK
<1>3. Referred'
  BY <1>1, RefersStill DEF DriversInv, Referred
<1>4. Roles' /\ Plates' /\ Shifts' /\ ShiftsAgree'
  BY <1>1, RolesStay, PlatesStay, ShiftsStay DEF DriversInv
<1> QED
  BY <1>2, <1>3, <1>4 DEF DriversInv

-----------------------------------------------------------------------------
(* Theorems.                                                                *)

LEMMA NextInv == DriversInv /\ [Next]_vars => DriversInv'
<1> SUFFICES ASSUME DriversInv, [Next]_vars PROVE DriversInv'
  OBVIOUS
<1>1. CASE RoleStep
  BY <1>1, AcceptInviteInv, RevokeRoleInv, AssignRoleInv DEF RoleStep
<1>2. CASE DriverStep
  BY <1>2, CreateDriverInv, UpdateDriverInv DEF DriverStep
<1>3. ASSUME NEW r \in Request, ShiftStep(r) PROVE DriversInv'
  BY <1>3, StartShiftInv, EndShiftInv, CommitStartInv, CommitEndInv DEF ShiftStep
<1>4. ASSUME NEW r \in Request, VehicleStep(r) PROVE DriversInv'
  BY <1>4, CreateVehicleInv, CommitVehicleInv DEF VehicleStep
<1> QED
  BY <1>1, <1>2, <1>3, <1>4, CommitRoleInv, DieInv, StutterInv DEF Next

LEMMA DriversInvHolds == Spec => []DriversInv
BY InitInv, NextInv, PTL DEF Spec

\* The tables keep their types, every driver of the role has a profile, and
\* profiles and shifts refer to rows that exist.
THEOREM TypeCorrect == Spec => []TypeOK
<1>1. DriversInv => TypeOK
  BY DEF DriversInv
<1> QED
  BY <1>1, DriversInvHolds, PTL

LEMMA AtMostOneCounts ==
  ASSUME NEW S, AtMostOne(S)
  PROVE  Cardinality(S) <= 1
<1>1. CASE S = {}
  BY <1>1, FS_EmptySet
<1>2. CASE S # {}
  <2>1. PICK x \in S : TRUE
    BY <1>2
  <2>2. S = {x}
    BY <2>1 DEF AtMostOne
  <2>3. Cardinality(S) = 1
    BY <2>2, FS_Singleton
  <2> QED
    BY <2>3
<1> QED
  BY <1>1, <1>2

\* What start_shift, _ensure_driver_profile and create_vehicle look for before
\* they insert is there at most once, unless two requests looked at the same
\* time or staff made a profile by hand.
THEOREM NothingIsDoubled == Spec => []OneOfEach
<1>1. DriversInv => OneOfEach
  BY AtMostOneCounts DEF DriversInv, Roles, Shifts, Plates, OneOfEach
<1> QED
  BY <1>1, DriversInvHolds, PTL

\* A driver is offline exactly when there is no shift, from one start or end of
\* a shift on to the next change by hand, unless such requests overlap.
THEOREM StatusFollowsShift == Spec => []ShiftsAgree
<1>1. DriversInv => ShiftsAgree
  BY DEF DriversInv
<1> QED
  BY <1>1, DriversInvHolds, PTL
=============================================================================
