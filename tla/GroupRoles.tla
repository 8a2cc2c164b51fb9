------------------------------ MODULE GroupRoles ------------------------------
(***************************************************************************)
(* What the membership requests of a group promise its members, each one   *)
(* taking effect at once: the role of every person and the owner of the    *)
(* group.  GroupMembership shows which statements the code takes for it.   *)
(***************************************************************************)
CONSTANT Users

VARIABLES
  type,   \* type[u]: the role of u, "none" for a person without membership
  owner   \* the person the group belongs to

Full  == {"member", "admin", "owner"}
Types == Full \cup {"none", "pending"}

\* Only the person the group belongs to has the role of owner.
OwnerIsSole == \A u \in Users : type[u] = "owner" => u = owner

Init ==
  /\ type \in [Users -> Types]
  /\ owner \in Users
  /\ OwnerIsSole

\* u asks to be admitted to a group that is not open.
Apply(u) ==
  /\ type[u] \notin Full
  /\ type' = [type EXCEPT ![u] = "pending"]
  /\ UNCHANGED owner

\* u is admitted: nobody who is in the group already loses a role by it.
Enter(u) ==
  /\ type[u] \notin Full
  /\ type' = [type EXCEPT ![u] = "member"]
  /\ UNCHANGED owner

\* A person with write access gives u another role.
Appoint(u, role) ==
  /\ type[u] # "none"
  /\ role \in {"member", "admin"}
  /\ type' = [type EXCEPT ![u] = role]
  /\ UNCHANGED owner

\* The group changes hands.  The owner before becomes an administrator.
Transfer(u) ==
  /\ type[u] # "none"
  /\ owner' = u
  /\ type' = [p \in Users |->
                IF p = owner THEN IF type[p] = "none" THEN "none" ELSE "admin"
                ELSE IF p = u THEN "owner" ELSE type[p]]

\* u leaves, is rejected or removed, or the account of u is deleted.
Drop(u) ==
  /\ type' = [type EXCEPT ![u] = "none"]
  /\ UNCHANGED owner

Next == \E u \in Users :
  \/ Apply(u) \/ Enter(u) \/ Transfer(u) \/ Drop(u)
  \/ \E role \in {"member", "admin"} : Appoint(u, role)

Spec == Init /\ [][Next]_<<type, owner>>
=============================================================================
