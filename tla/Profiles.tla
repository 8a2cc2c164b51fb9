------------------------------ MODULE Profiles ------------------------------
(***************************************************************************)
(* Profile fields, the sections a profile is made of, and the values of    *)
(* members (core/models/user.py, the resolvers of profile fields and of    *)
(* users in core/resolvers, core/views.py onboarding with core/forms.py,   *)
(* profile_sync/views.py, and the fields a group asks for in               *)
(* core/resolvers/group_shared.py).                                        *)
(*                                                                         *)
(* PROFILE_SECTIONS is a setting that names fields without a foreign key;  *)
(* a value is a row with foreign keys, made by get_or_create and filled by *)
(* a later save of the whole row.                                          *)
(***************************************************************************)
EXTENDS Naturals, FiniteSets

CONSTANTS
  Fields,       \* profile fields that may ever exist
  Members,
  Fillings,      \* what may be filled in
  Desks,        \* processes that serve requests
  MaxOrders     \* bound on the requests served

Blank == "blank"
ASSUME ProfilesAssumption == Blank \notin Fillings /\ MaxOrders \in Nat

VARIABLES
  field,      \* field[f]: the row of f
  sections,   \* the fields named in PROFILE_SECTIONS
  required,   \* the fields a group requires of its members
  value,      \* value[m][f]: what m filled in for f
  wish,       \* wish[m][f]: history: the access m chose for it last
  desk,       \* desk[p]: the request p serves
  orders,     \* requests served so far
  busy        \* history: two requests were ever served at the same time

profiles == <<field, sections, required, value, wish, desk, orders, busy>>

Kinds    == {"text", "select"}
NoField  == [there |-> FALSE, kind |-> "text", options |-> {}, mandatory |-> FALSE, onboarding |-> FALSE]
Field    == [there : BOOLEAN, kind : Kinds, options : SUBSET Fillings, mandatory : BOOLEAN, onboarding : BOOLEAN]
\* "nobody" is the access of a row that get_or_create has just made.
Readers  == {"nobody", "owner", "logged in"}
NoValue  == [there |-> FALSE, is |-> Blank, access |-> "nobody"]
QuietDesk    == [do |-> "idle"]

ProfilesInit ==
  /\ field \in {F \in [Fields -> {NoField, [NoField EXCEPT !.there = TRUE],
                                  [NoField EXCEPT !.there = TRUE, !.mandatory = TRUE]}] : \E f \in Fields : F[f].there}
  /\ sections = {f \in Fields : field[f].there}
  /\ required = {}
  /\ value = [m \in Members |-> [f \in Fields |-> NoValue]]
  /\ wish = [m \in Members |-> [f \in Fields |-> "nobody"]]
  /\ desk = [p \in Desks |-> QuietDesk]
  /\ orders = 0
  /\ busy = FALSE

There == {f \in Fields : field[f].there}
Turns(p, job) == desk' = [desk EXCEPT ![p] = job]
Takes(p, job) ==
  /\ desk[p] = QuietDesk /\ orders < MaxOrders
  /\ orders' = orders + 1
  /\ busy' = (busy \/ \E q \in Desks \ {p} : desk[q] # QuietDesk)
  /\ Turns(p, job)

(***************************************************************************)
(* Fields.                                                                 *)
(***************************************************************************)
\* create_profile_field makes a text field; the rest is saved afterwards.
AddField(p) ==
  /\ \E f \in Fields \ There, new \in Field :
       /\ new.there /\ (new.kind = "text" => new.options = {})
       /\ Takes(p, [do |-> "save field", f |-> f, new |-> new])
       /\ field' = [field EXCEPT ![f] = [NoField EXCEPT !.there = TRUE]]
  /\ UNCHANGED <<sections, required, value, wish>>

\* The kind of a field stays what it is.
EditField(p) ==
  /\ \E f \in There : \E new \in Field :
       /\ new.there /\ new.kind = field[f].kind /\ (new.kind = "text" => new.options = {})
       /\ Takes(p, [do |-> "save field", f |-> f, new |-> new])
  /\ UNCHANGED <<field, sections, required, value, wish>>

\* save() inserts the row again if it was deleted meanwhile.
SaveField(p) ==
  /\ desk[p].do = "save field"
  /\ field' = [field EXCEPT ![desk[p].f] = desk[p].new]
  /\ Turns(p, QuietDesk)
  /\ UNCHANGED <<sections, required, value, wish, orders, busy>>

\* ProfileField.delete: the row with the values and the group's settings, ...
\* Mutant of SectionsAfter: the setting is left to the next edit of it.
SectionsAfterNot(p) == QuietDesk
SectionsAfter(p) == [do |-> "read sections"]
DeleteField(p) ==
  /\ \E f \in There :
       /\ Takes(p, SectionsAfter(p))
       /\ field' = [field EXCEPT ![f] = NoField]
       /\ required' = required \ {f}
       /\ value' = [m \in Members |-> [value[m] EXCEPT ![f] = NoValue]]
       /\ wish' = [m \in Members |-> [wish[m] EXCEPT ![f] = "nobody"]]
  /\ UNCHANGED sections

\* ... and validate_profile_sections, which asks for one field after the other.
ReadSections(p) ==
  /\ desk[p].do = "read sections"
  /\ Turns(p, [do |-> "write sections", named |-> sections \cap There])
  /\ UNCHANGED <<field, sections, required, value, wish, orders, busy>>

WriteSections(p) ==
  /\ desk[p].do = "write sections"
  /\ sections' = desk[p].named
  /\ Turns(p, QuietDesk)
  /\ UNCHANGED <<field, required, value, wish, orders, busy>>

\* resolve_update_profile_sections, with a form that may be older than a field.
EditSections(p) ==
  /\ \E S \in SUBSET Fields : Takes(p, [do |-> "write sections", named |-> S \cap There])
  /\ UNCHANGED <<field, sections, required, value, wish>>

(***************************************************************************)
(* The fields a group requires.                                            *)
(***************************************************************************)
\* update_required_profile_fields: one after the other, the first that is gone
\* ends the request; the fields not in the form are switched off last.
EditRequired(p) ==
  /\ \E S \in SUBSET Fields : Takes(p, [do |-> "require", all |-> S, todo |-> S])
  /\ UNCHANGED <<field, sections, required, value, wish>>

\* Mutant of Known: it is not looked up.
KnownAlways(f) == TRUE
Known(f) == field[f].there
Require(p) ==
  /\ desk[p].do = "require" /\ desk[p].todo # {}
  /\ \E f \in desk[p].todo :
       IF Known(f)
       THEN required' = required \cup {f} /\ Turns(p, [desk[p] EXCEPT !.todo = @ \ {f}])
       ELSE UNCHANGED required /\ Turns(p, QuietDesk)
  /\ UNCHANGED <<field, sections, value, wish, orders, busy>>

RequireOnly(p) ==
  /\ desk[p].do = "require" /\ desk[p].todo = {}
  /\ required' = required \cap desk[p].all
  /\ Turns(p, QuietDesk)
  /\ UNCHANGED <<field, sections, value, wish, orders, busy>>

(***************************************************************************)
(* Values.                                                                 *)
(***************************************************************************)
\* validate_profile_field; the lists of validators are options of another kind.
Fits(f, v) == v = Blank \/ field[f].kind = "text" \/ v \in field[f].options

\* A request to fill in: answers for some fields of m, and how.
FillIn(m, how, answers, access) ==
  [do |-> "row", m |-> m, how |-> how, todo |-> answers, access |-> access]

EditValue(p) ==
  /\ \E m \in Members, f \in There, v \in Fillings \cup {Blank}, a \in Readers \ {"nobody"} :
       Fits(f, v) /\ Takes(p, FillIn(m, "edit", [x \in {f} |-> v], a))
  /\ UNCHANGED <<field, sections, required, value, wish>>

\* OnboardingForm.
\* Mutant of InForm: only the fields for it.
InFormChosen(f) == field[f].onboarding
InForm(f) == field[f].onboarding \/ field[f].mandatory
SendOnboarding(p) ==
  /\ \E m \in Members, answers \in [{f \in There : InForm(f)} -> Fillings \cup {Blank}] :
       /\ \A f \in DOMAIN answers : Fits(f, answers[f]) /\ (field[f].mandatory => answers[f] # Blank)
       /\ Takes(p, FillIn(m, "onboarding", answers, "logged in"))
  /\ UNCHANGED <<field, sections, required, value, wish>>

\* The synchronisation checks nothing; its new values have the default access.
Sync(p) ==
  /\ \E m \in Members, f \in There, v \in Fillings \cup {Blank} :
       Takes(p, FillIn(m, "sync", [x \in {f} |-> v], "logged in"))
  /\ UNCHANGED <<field, sections, required, value, wish>>

\* get_or_create; a field that is gone ends an edit and an onboarding with an
\* error.
MakeRow(p) ==
  /\ desk[p].do = "row" /\ DOMAIN desk[p].todo # {}
  /\ \E f \in DOMAIN desk[p].todo :
       LET m == desk[p].m IN
       IF ~field[f].there THEN Turns(p, QuietDesk) /\ UNCHANGED value
       ELSE /\ value' = [value EXCEPT ![m][f].there = TRUE]
            /\ Turns(p, [do |-> "store", m |-> m, how |-> desk[p].how, todo |-> desk[p].todo,
                         access |-> desk[p].access, f |-> f, created |-> ~value[m][f].there,
                         was |-> value[m][f].access])
  /\ UNCHANGED <<field, sections, required, wish, orders, busy>>

\* Mutant of Access: the access of the form counts, if there is a form or not.
AccessNew(job) == job.access
Access(job) == IF job.how = "edit" \/ job.created THEN job.access ELSE job.was
StoreValue(p) ==
  /\ desk[p].do = "store"
  /\ LET job == desk[p]  m == job.m  f == job.f IN
     IF ~field[f].there THEN Turns(p, QuietDesk) /\ UNCHANGED <<value, wish>>
     ELSE /\ value' = [value EXCEPT ![m][f] = [there |-> TRUE, is |-> job.todo[f], access |-> Access(job)]]
          /\ wish' = IF job.how = "edit" THEN [wish EXCEPT ![m][f] = job.access] ELSE wish
          /\ Turns(p, FillIn(m, job.how, [x \in DOMAIN job.todo \ {f} |-> job.todo[x]], job.access))
  /\ UNCHANGED <<field, sections, required, orders, busy>>

Filled(p) ==
  /\ desk[p].do = "row" /\ DOMAIN desk[p].todo = {}
  /\ Turns(p, QuietDesk)
  /\ UNCHANGED <<field, sections, required, value, wish, orders, busy>>

(***************************************************************************)
(* What is shown.                                                          *)
(***************************************************************************)
\* resolve_profile looks every field of the sections up: one that is gone ends
\* the query, on the page of every member.
ProfileShown == sections \subseteq There

\* User.is_profile_complete.
Complete(m) == \A f \in There : field[f].mandatory => value[m][f].there /\ value[m][f].is # Blank

\* UserProfileFieldManager.visible, for a member who is no administrator.
Visible(m, viewer) ==
  {f \in There : value[m][f].there /\ (value[m][f].access = "logged in" \/ (value[m][f].access = "owner" /\ viewer = m))}

-----------------------------------------------------------------------------
ProfilesStep(p) ==
  \/ AddField(p) \/ EditField(p) \/ SaveField(p) \/ DeleteField(p) \/ ReadSections(p) \/ WriteSections(p)
  \/ EditSections(p) \/ EditRequired(p) \/ Require(p) \/ RequireOnly(p)
  \/ EditValue(p) \/ SendOnboarding(p) \/ Sync(p) \/ MakeRow(p) \/ StoreValue(p) \/ Filled(p)
ProfilesNext == \E p \in Desks : ProfilesStep(p)
ProfilesSpec == ProfilesInit /\ [][ProfilesNext]_profiles

(***************************************************************************)
(* Properties.                                                             *)
(***************************************************************************)
ProfilesTypeOK ==
  /\ field \in [Fields -> Field]
  /\ sections \subseteq Fields
  /\ value \in [Members -> [Fields -> [there : BOOLEAN, is : Fillings \cup {Blank}, access : Readers]]]
  /\ wish \in [Members -> [Fields -> Readers]]
  /\ DOMAIN desk = Desks /\ orders \in 0..MaxOrders /\ busy \in BOOLEAN
  /\ required \subseteq There
  /\ \A m \in Members, f \in Fields : value[m][f].there => field[f].there

AllQuiet == \A p \in Desks : desk[p] = QuietDesk

\* Requests served one after the other: profiles can be opened, whatever fields
\* were made, named in sections and deleted.
ProfilesOpen == ~busy /\ AllQuiet => ProfileShown

\* Who has sent the onboarding form is not asked again: no mandatory field was
\* left out of it.
OnboardingEnds ==
  ~busy => \A p \in Desks :
    desk[p].do = "row" /\ desk[p].how = "onboarding" /\ DOMAIN desk[p].todo = {} => Complete(desk[p].m)

\* The synchronisation and the onboarding form change what a member filled in
\* and not who may see it: with requests one after the other, the others see a
\* value only if its owner showed it to them, or never chose.
WishKept ==
  ~busy /\ AllQuiet => \A m, viewer \in Members : \A f \in Fields :
    wish[m][f] = "owner" /\ viewer # m => f \notin Visible(m, viewer)

\* Profiles can be opened, are complete once asked for, and show what was meant to be shown.
ProfilesSound == ProfilesTypeOK /\ ProfilesOpen /\ OnboardingEnds /\ WishKept
=============================================================================
