-------------------------- MODULE MCGroupMembership --------------------------
(***************************************************************************)
(* Instances of GroupMembership for TLC.  A scene narrows what happens in  *)
(* an execution to some kinds of request about some of the people, so that *)
(* one run asks about roles in one scene and about subgroups in another.   *)
(***************************************************************************)
EXTENDS GroupMembership

CONSTANTS ann, bob, cat, red, blue, w1, w2,
          Scenes   \* the scenes of a run

VARIABLE scene

\* ann is an administrator of the site.
Admins == {ann}
Three  == {ann, bob, cat}
Two    == {ann, bob}

OneColour  == {red}
TwoColours == {red, blue}

Scene(kinds, people, colours, start, roles) ==
  [kinds |-> kinds, people |-> people, colours |-> colours, start |-> start, roles |-> roles]

\* Requests about memberships of three people, in a group without subgroups.
RolesScene ==
  Scene(AllKinds \ {"subadd", "subedit", "subdel"}, Three, {}, {"none", "member", "admin"}, Roles)

\* Two people and two subgroups: everything but removals by an administrator.
SubgroupScene ==
  Scene({"join", "leave", "redeem", "invite", "role", "accept", "subadd", "subedit", "subdel", "erase"},
        Two, TwoColours, StartRoles, Roles \ {"removed"})

\* What the constants of the run allow.
Everything == Scene(Kinds, Users, Subgroups, StartRoles, Roles \cup Changes)

Sequential == {RolesScene, SubgroupScene}
Concurrent == {Everything}

\* cat starts with no more than bob and blue not without red: the other way
\* round is the same with the names exchanged.
Mirrored ==
  \/ group.owner = cat
  \/ group.owner = ann /\ cat \in Users
     /\ <<rows[bob].type, rows[cat].type>> \in {<<"none", "member">>, <<"none", "admin">>, <<"member", "admin">>}
  \/ live = {blue}

MCInit ==
  /\ Init
  /\ ~Mirrored
  /\ scene \in Scenes
  /\ live \subseteq scene.colours
  /\ group.owner \in scene.people
  /\ \A u \in Users \ {group.owner} :
       rows[u].type \in (IF u \in scene.people THEN scene.start ELSE {"none"})

Arrives(w) == pc[w] = "idle" /\ pc'[w] # "idle"
InScene(w) ==
  /\ job'[w].kind \in scene.kinds
  /\ {job'[w].by, job'[w].who} \cup todo'[w] \subseteq scene.people
  /\ job'[w].kind = "role" => job'[w].want \in scene.roles

MCNext == /\ Next
          /\ \A w \in Workers : Arrives(w) => InScene(w)
          /\ UNCHANGED scene

MCSpec == MCInit /\ [][MCNext]_<<vars, scene>>
MCFairSpec == MCSpec /\ \A w \in Workers : WF_vars(Step(w))
=============================================================================
