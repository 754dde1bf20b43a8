------------------------------ MODULE Drivers ------------------------------
(***************************************************************************)
(* Drivers of one organization: the role, the profile that goes with it,   *)
(* shifts, the status that dispatching reads, and vehicles                 *)
(* (modules/drivers, and the roles of modules/identity).                   *)
(*                                                                         *)
(* What must be there once is looked for and then inserted, and no         *)
(* constraint backs the check: a request reads, and inserts and sets when  *)
(* it commits, with others in between.  Of a row only the attributes it    *)
(* has changed are written.  Positions are left out.                       *)
(***************************************************************************)
EXTENDS Naturals, FiniteSets

CONSTANTS
  User,                        \* users of the organization
  DriverId, ShiftId, VehicleId,  \* primary keys
  Plate,
  Request,                     \* requests that may be open at a time
  Nobody                       \* user_id IS NULL

ASSUME DriversAssumption ==
  /\ Nobody \notin User \cup Plate
  /\ User \cap DriverId = {} /\ User \cap Plate = {} /\ DriverId \cap Plate = {}

VARIABLES
  members,    \* per user: none, member, or driver for one who has that role
  drivers, shifts, vehicles,  \* the tables
  request,    \* what each open request has read
  raced,      \* history: users, drivers and plates that two requests met at
  edited      \* history: drivers whose status was last set by hand

vars == <<members, drivers, shifts, vehicles, request, raced, edited>>

None == [state |-> "none"]

Idle == [op |-> "none"]

\* assigned, on_delivery and on_break are not told apart.
DriverStatus == {"offline", "available", "busy"}

DriverRow == [state : {"live"}, user : User \cup {Nobody}, status : DriverStatus]

RequestRow ==
  [op : {"assign"}, user : User, missing : BOOLEAN]
    \cup [op : {"start"}, driver : DriverId, status : DriverStatus]
    \cup [op : {"end"}, driver : DriverId, shift : ShiftId, status : DriverStatus]
    \cup [op : {"vehicle"}, plate : Plate]

Profiles(u) == {d \in DriverId : drivers[d] # None /\ drivers[d].user = u}

\* One type invariant.  The profile of a driver is there as soon as the role, and
\* profiles and shifts belong to rows that exist.
TypeOK ==
  /\ members \in [User -> {"none", "member", "driver"}]
  /\ drivers \in [DriverId -> {None} \cup DriverRow]
  /\ shifts \in [ShiftId -> {None} \cup [state : {"active", "ended"}, driver : DriverId]]
  /\ vehicles \in [VehicleId -> {Nobody} \cup Plate]
  /\ request \in [Request -> {Idle} \cup RequestRow]
  /\ raced \subseteq User \cup DriverId \cup Plate
  /\ edited \subseteq DriverId
  /\ \A u \in User :
       /\ members[u] = "driver" => Profiles(u) # {}
       /\ members[u] = "none" => Profiles(u) = {}
  /\ \A s \in ShiftId : shifts[s] # None => drivers[shifts[s].driver] # None

Init ==
  /\ members = [u \in User |-> "none"]
  /\ drivers = [d \in DriverId |-> None]
  /\ shifts = [s \in ShiftId |-> None]
  /\ vehicles = [v \in VehicleId |-> Nobody]
  /\ request = [r \in Request |-> Idle]
  /\ raced = {}
  /\ edited = {}

-----------------------------------------------------------------------------
Opens(r, row) ==
  /\ request[r] = Idle
  /\ request' = [request EXCEPT ![r] = row]
  /\ UNCHANGED <<members, drivers, shifts, vehicles, raced, edited>>

Closes(r) == request' = [request EXCEPT ![r] = Idle]

\* Those that meet r at x: they have read what r is about to change.
Meets(r, x, others) == raced' = IF others \ {r} = {} THEN raced ELSE raced \cup {x}

Profile(u) == [state |-> "live", user |-> u, status |-> "offline"]

AddDriver(u) == \E d \in DriverId : drivers[d] = None /\ drivers' = [drivers EXCEPT ![d] = Profile(u)]

-----------------------------------------------------------------------------
(* Roles and profiles.                                                      *)

\* accept_invite, of an invitation as a driver or as something else.  The user
\* is new, and so is its profile.
AcceptInvite(u, role) ==
  /\ members[u] = "none"
  /\ members' = [members EXCEPT ![u] = role]
  /\ IF role = "driver" THEN AddDriver(u) ELSE UNCHANGED drivers
  /\ UNCHANGED <<shifts, vehicles, request, raced, edited>>

\* assign_role, up to _ensure_driver_profile.
AssignRole(r, u) ==
  /\ members[u] = "member"
  /\ Opens(r, [op |-> "assign", user |-> u, missing |-> Profiles(u) = {}])

\* Mutant: the role alone.
CommitRoleAlone(r) ==
  LET u == request[r].user
  IN  /\ request[r].op = "assign"
      /\ members' = [members EXCEPT ![u] = "driver"]
      /\ Closes(r)
      /\ UNCHANGED <<drivers, shifts, vehicles, raced, edited>>

\* Mutant: the profile is always added.
CommitRoleAndProfile(r) ==
  LET u == request[r].user
  IN  /\ request[r].op = "assign"
      /\ members[u] = "member"
      /\ members' = [members EXCEPT ![u] = "driver"]
      /\ AddDriver(u)
      /\ Closes(r)
      /\ UNCHANGED <<shifts, vehicles, raced, edited>>

\* The primary key of user_roles refuses a second link, and the profile with it.
CommitRole(r) ==
  LET u == request[r].user
      others == {q \in Request : request[q].op = "assign" /\ request[q].user = u /\ request[q].missing}
  IN  /\ request[r].op = "assign"
      /\ \/ /\ members[u] = "member"
            /\ members' = [members EXCEPT ![u] = "driver"]
            /\ IF request[r].missing
               THEN AddDriver(u) /\ Meets(r, u, others)
               ELSE UNCHANGED <<drivers, raced>>
         \/ /\ members[u] = "driver"
            /\ UNCHANGED <<members, drivers, raced>>
      /\ Closes(r)
      /\ UNCHANGED <<shifts, vehicles, edited>>

\* The profile stays.
RevokeRole(u) ==
  /\ members[u] = "driver"
  /\ members' = [members EXCEPT ![u] = "member"]
  /\ UNCHANGED <<drivers, shifts, vehicles, request, raced, edited>>

\* create_driver, linked to a user or not, looks for no other profile.
CreateDriver(u) ==
  /\ u \in {Nobody} \cup {m \in User : members[m] # "none"}
  /\ AddDriver(u)
  /\ raced' = IF u = Nobody THEN raced ELSE raced \cup {u}
  /\ UNCHANGED <<members, shifts, vehicles, request, edited>>

OnDriver(d) == {q \in Request : request[q].op \in {"start", "end"} /\ request[q].driver = d}

\* update_driver, to any status.
UpdateDriver(d, status) ==
  /\ drivers[d] # None
  /\ drivers' = [drivers EXCEPT ![d].status = status]
  /\ edited' = edited \cup {d}
  /\ raced' = IF OnDriver(d) = {} THEN raced ELSE raced \cup {d}
  /\ UNCHANGED <<members, shifts, vehicles, request>>

-----------------------------------------------------------------------------
(* Shifts.                                                                  *)

OnShift(d) == {s \in ShiftId : shifts[s].state = "active" /\ shifts[s].driver = d}

StartShift(r, d) ==
  /\ drivers[d] # None
  /\ OnShift(d) = {}
  /\ Opens(r, [op |-> "start", driver |-> d, status |-> drivers[d].status])

\* A status is written if it differs from the one the request has read.
SetStatus(d, read, status) ==
  drivers' = IF read = status THEN drivers ELSE [drivers EXCEPT ![d].status = status]

CommitStart(r) ==
  LET d == request[r].driver
  IN  /\ request[r].op = "start"
      /\ \E s \in ShiftId :
           /\ shifts[s] = None
           /\ shifts' = [shifts EXCEPT ![s] = [state |-> "active", driver |-> d]]
      /\ SetStatus(d, request[r].status, "available")
      /\ edited' = edited \ {d}
      /\ Meets(r, d, OnDriver(d))
      /\ Closes(r)
      /\ UNCHANGED <<members, vehicles>>

\* Mutant: the status of the shift is not looked at.
EndAnyShift(r, s) ==
  /\ shifts[s] # None
  /\ Opens(r, [op |-> "end", driver |-> shifts[s].driver, shift |-> s,
               status |-> drivers[shifts[s].driver].status])

EndShift(r, s) ==
  /\ shifts[s].state = "active"
  /\ Opens(r, [op |-> "end", driver |-> shifts[s].driver, shift |-> s,
               status |-> drivers[shifts[s].driver].status])

CommitEnd(r) ==
  LET d == request[r].driver
  IN  /\ request[r].op = "end"
      /\ shifts' = [shifts EXCEPT ![request[r].shift].state = "ended"]
      /\ SetStatus(d, request[r].status, "offline")
      /\ edited' = edited \ {d}
      /\ Meets(r, d, OnDriver(d))
      /\ Closes(r)
      /\ UNCHANGED <<members, vehicles>>

-----------------------------------------------------------------------------
(* Vehicles.  No constraint makes a plate unique.                           *)

With(plate) == {v \in VehicleId : vehicles[v] = plate}

CreateVehicle(r, plate) ==
  /\ With(plate) = {}
  /\ Opens(r, [op |-> "vehicle", plate |-> plate])

CommitVehicle(r) ==
  LET plate == request[r].plate
  IN  /\ request[r].op = "vehicle"
      /\ \E v \in VehicleId :
           /\ vehicles[v] = Nobody
           /\ vehicles' = [vehicles EXCEPT ![v] = plate]
      /\ Meets(r, plate, {q \in Request : request[q].op = "vehicle" /\ request[q].plate = plate})
      /\ Closes(r)
      /\ UNCHANGED <<members, drivers, shifts, edited>>

-----------------------------------------------------------------------------
RoleStep ==
  \E u \in User :
    \/ \E role \in {"member", "driver"} : AcceptInvite(u, role)
    \/ RevokeRole(u)
    \/ \E r \in Request : AssignRole(r, u)

DriverStep ==
  \/ \E u \in User \cup {Nobody} : CreateDriver(u)
  \/ \E d \in DriverId, status \in DriverStatus : UpdateDriver(d, status)

ShiftStep(r) ==
  \/ \E d \in DriverId : StartShift(r, d)
  \/ \E s \in ShiftId : EndShift(r, s)
  \/ CommitStart(r)
  \/ CommitEnd(r)

VehicleStep(r) == (\E plate \in Plate : CreateVehicle(r, plate)) \/ CommitVehicle(r)

\* The process dies, or the database ends the transaction.
Die(r) ==
  /\ request[r] # Idle
  /\ Closes(r)
  /\ UNCHANGED <<members, drivers, shifts, vehicles, raced, edited>>

Next == RoleStep \/ DriverStep \/ \E r \in Request : CommitRole(r) \/ ShiftStep(r) \/ VehicleStep(r) \/ Die(r)

Spec == Init /\ [][Next]_vars
-----------------------------------------------------------------------------
(* Properties.                                                              *)

\* What the code looks for before it inserts is there at most once, the profile
\* of a user, the active shift of a driver and the plate of a vehicle, as long
\* as no two requests looked at the same time and no profile was made by hand:
\* however often the role and the shift come and go.
OneOfEach ==
  /\ \A u \in User \ raced : Cardinality(Profiles(u)) <= 1
  /\ \A d \in DriverId \ raced : Cardinality(OnShift(d)) <= 1
  /\ \A plate \in Plate \ raced : Cardinality(With(plate)) <= 1

\* A driver is offline exactly when there is no shift, as docs/13-glossary.md has
\* it: until the status is set by hand, and again from the next start or end on,
\* unless such requests overlap.
ShiftsAgree ==
  \A d \in DriverId \ (raced \cup edited) :
    drivers[d] # None => (drivers[d].status = "offline" <=> OnShift(d) = {})
=============================================================================
