---------------------------- MODULE MCReadAccess ----------------------------
(***************************************************************************)
(* Instances of ReadAccess, Responses, SiteSettings and Profiles for TLC:  *)
(* who may see a post, what people do with one, the settings of the site   *)
(* and the profiles of its members.  The scene of an execution says which  *)
(* of them moves; the others stay in one initial state.                    *)
(***************************************************************************)
EXTENDS ReadAccess, Responses, SiteSettings, Profiles, TLC

CONSTANTS ann, bob, g, h, team, blog, folder, doc, pic, w1, w2, quiz, ask, red, blue, green

VARIABLE scene

InG   == team :> g
InFolder == blog :> {} @@ folder :> {doc} @@ doc :> {}
ByAnn == pic :> ann

\* ann in the first group, bob, who administers the site, in none; or ann in both.
Roles1(x, y) == g :> (ann :> x @@ bob :> "none") @@ h :> (ann :> y @@ bob :> "none")
SomeRoles == {Roles1("member", "none"), Roles1("none", "admin")}

OneOrTwo == {{w1}, {w1, w2}}
Asked  == {"private", "logged_in", "public", "group", team}

\* One process: blogs with moves, members and closing; files in folders; pictures.
Offer(kinds, posts, files, bound) ==
  [kinds |-> kinds, posts |-> posts, files |-> files, bound |-> bound]
Posting == Offer({"add", "edit", "close", "member"}, {blog}, {}, 3)
Sorting == Offer({"add", "folder", "close", "site"}, {folder, doc}, {}, 3)
Showing == Offer({"add", "edit", "delete", "configure", "subgroup"}, {blog}, {pic}, 3)
Sharing == Offer({"add", "edit", "close", "site", "delete"}, {blog}, {}, 3)
SomeOffers == {Posting, Sorting, Showing, Sharing}

Sided == /\ (Cardinality(crew) > 1) <=> (offer = Sharing)
         /\ offer \in {Showing, Sharing} => role = Roles1("member", "none")

\* A poll with three choices, with one, and with one listed twice.
SomeForms == {Texts \X {1}, {<<blue, 1>>}, {red} \X {1, 2}}

\* Comments, follows and best answers; comments of guests and a poll.
Discussing == {"insert", "root", "touch", "follow", "link", "unfollow", "tell", "save", "drop", "write", "idle"}
Asking(k)  == CASE k = "discussing" -> 3 [] k = "asking" -> 4 [] OTHER -> 0
InScene    == /\ used.asks <= Asking(scene)
              /\ \A w \in Processes : (at[w].do \in Discussing) <=> (scene = "discussing" \/ at[w] = Unasked)
              /\ scene = "asking" => \A q \in Questions : question[q].there
             /\ \A w \in Processes : at[w].do = "clear" => at[w].texts \in SomeForms

\* The settings that the forms of one execution name.
Walling     == <<"indexing", "walled">>
Redirecting == <<"redirects", "forced">>
SomeThemes  == {Walling, Redirecting, <<"closed", "default">>, <<"primary", "header">>,
                <<"logo", "removeLogo">>, <<"redirects", "abstract">>, <<"intro", "forced">>}

\* Three forms about the wall, one after the other, or two that overlap; two
\* about the rest; one about redirects that overlaps with a visit.
FewForms  == history.forms <= CASE history.theme = Walling -> IF history.overlap THEN 2 ELSE 3
                                [] history.theme = Redirecting /\ history.overlap -> 1
                                [] OTHER -> IF history.overlap THEN 0 ELSE 2

\* Values of one member, whom the other looks at.
FewOrders == /\ busy => orders <= 2
             /\ \A p \in Desks : desk[p].do \in {"row", "store"} => desk[p].m = ann

MCInit ==
  /\ Init /\ Sided /\ ResponsesInit /\ SettingsInit /\ ProfilesInit
  /\ scene \in {"reading", "discussing", "asking", "settings", "profiles"}
  /\ scene # "reading" => offer = Posting /\ crew = {w1} /\ closed[g] /\ ~closed[h] /\ role = Roles1("member", "none")
  /\ choice[1] = <<red, 1>>
  /\ scene # "settings" => history.theme = Walling
  /\ (field[ask].there => field[quiz].there) /\ (field[ask].mandatory => field[quiz].mandatory)   \* they are alike
  /\ scene # "profiles" => field = [f \in Fields |-> [NoField EXCEPT !.there = TRUE]]
MCNext ==
  \/ scene = "reading" /\ Next /\ UNCHANGED <<responses, settings, profiles, scene>>
  \/ scene \in {"discussing", "asking"} /\ UNCHANGED <<vars, settings, profiles, scene>> /\ ResponsesNext /\ InScene'
  \/ scene = "settings" /\ UNCHANGED <<vars, responses, profiles, scene>> /\ SettingsNext /\ FewForms'
  \/ scene = "profiles" /\ UNCHANGED <<vars, responses, settings, scene>> /\ ProfilesNext /\ FewOrders'
MCSpec == MCInit /\ [][MCNext]_<<vars, responses, settings, profiles, scene>>
=============================================================================
