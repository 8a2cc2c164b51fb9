---------------------------- MODULE SiteSettings ----------------------------
(***************************************************************************)
(* The settings of a site: the form of its administrators                  *)
(* (core/resolvers/mutation_edit_site_setting.py), what they and visitors  *)
(* are shown (core/resolvers/site_settings.py, query_site.py), and the     *)
(* chain a request passes because of them (core/middleware.py).            *)
(*                                                                         *)
(* A form names some settings.  They are saved one after the other, each   *)
(* in a statement of its own and in an order the code fixes; the first     *)
(* that is refused ends the request and leaves the earlier ones saved.     *)
(* How a row and its cached copy may differ is SiteConfig; here a setting  *)
(* has one value.                                                          *)
(***************************************************************************)
EXTENDS Naturals, Sequences, FiniteSets, TLC

CONSTANTS
  Servers,      \* processes that serve requests
  Paths,        \* paths of the site that may be redirected
  Colours, Logos,
  Themes,       \* pairs of settings that forms combine
  MaxForms, MaxVisits, MaxCrashes   \* bounds on what is served

Away     == "away"       \* a destination on another site
NoColour == "no colour"
NoLogo   == "no logo"

ASSUME SettingsAssumption ==
  /\ MaxForms \in Nat /\ MaxVisits \in Nat /\ MaxCrashes \in Nat
  /\ Away \notin Paths /\ NoColour \notin Colours /\ NoLogo \notin Logos

\* The order in which resolve_edit_site_setting looks for them.  The keys of
\* its table come first; those that nothing depends on are left out, as are
\* the menu and the settings that are checked and saved like the abstract.
Order == <<"default", "indexing", "primary", "header", "forced", "intro",
           "redirects", "logo", "removeLogo", "walled", "closed", "abstract">>
Parts == {Order[i] : i \in DOMAIN Order}

MaxRedirects == 2     \* 2000
MaxAbstract  == 1000

Pairs == Paths \X (Paths \cup {Away})
Lists == {l \in SUBSET Pairs : Cardinality(l) <= MaxRedirects + 1}
Tables == UNION {[S -> Paths \cup {Away}] : S \in SUBSET Paths}

\* All forms that name one setting.
Single(part) ==
  CASE part = "default"    -> [default : 0..2]
    [] part = "indexing"   -> [indexing : BOOLEAN]
    [] part = "primary"    -> [primary : Colours]
    [] part = "header"     -> [header : Colours \cup {NoColour}]
    [] part = "intro"      -> [intro : BOOLEAN]
    [] part = "forced"     -> [forced : BOOLEAN]
    [] part = "redirects"  -> [redirects : Lists]
    [] part = "logo"       -> [logo : Logos \cup {NoLogo}]
    [] part = "removeLogo" -> [removeLogo : {TRUE}]
    [] part = "walled"     -> [walled : BOOLEAN]
    [] part = "closed"     -> [closed : BOOLEAN]
    [] part = "abstract"   -> [abstract : {0, MaxAbstract, MaxAbstract + 1}]

Forms == [theme \in Themes |->
  LET F == Single(theme[1])  G == Single(theme[2]) IN F \cup G \cup {f @@ f2 : f \in F, f2 \in G}]

VARIABLES
  setting,     \* the values of the settings
  logos,       \* files uploaded as a logo that are there
  configured,  \* files with a reference for configured_logo
  mailed,      \* what the last mail to the administrators said of isClosed
  serving,     \* serving[p]: the request p serves
  history      \* the requests so far, what was special about them, and the
               \* pair of settings that the forms of this execution name

settings == <<setting, logos, configured, mailed, serving, history>>

FreeServer == [do |-> "idle"]
Defaults ==
  [default |-> 1, indexing |-> FALSE, primary |-> CHOOSE c \in Colours : TRUE, header |-> NoColour,
   intro |-> FALSE, forced |-> FALSE, redirects |-> <<>>, logo |-> NoLogo, walled |-> FALSE,
   closed |-> TRUE, abstract |-> 0]

SettingsInit ==
  /\ setting = Defaults
  /\ logos = {} /\ configured = {}
  /\ mailed = Defaults.closed
  /\ serving = [p \in Servers |-> FreeServer]
  /\ history \in [forms : {0}, visits : {0}, crashes : {0}, overlap : {FALSE}, chosen : {FALSE}, theme : Themes]

Others(p) == \E q \in Servers \ {p} : serving[q] # FreeServer
Serve(p, job) == serving' = [serving EXCEPT ![p] = job]
Advance(p)    == Serve(p, [serving[p] EXCEPT !.todo = Tail(@)])
Doing(p, statement) == /\ serving[p].do = "form" /\ serving[p].todo # <<>>
                       /\ Head(serving[p].todo) = statement
Value(p) == serving[p].form[Head(serving[p].todo)]

(***************************************************************************)
(* What is shown.                                                          *)
(***************************************************************************)
\* The resolvers of site_settings.py give a setting as it is stored, except
\* that a header without a colour has the primary one, ...
ShownAccess     == [closed |-> setting.closed, default |-> setting.default, indexing |-> setting.indexing]
ShownStyle      == [primary |-> setting.primary, logo |-> setting.logo,
                    header |-> IF setting.header = NoColour THEN setting.primary ELSE setting.header]
ShownFrontPage  == [redirects |-> {<<x, setting.redirects[x]>> : x \in DOMAIN setting.redirects}]
ShownOnboarding == [intro |-> setting.intro, forced |-> setting.forced, walled |-> setting.walled]
ShownLimits     == [abstract |-> setting.abstract]
Shown == ShownAccess @@ ShownStyle @@ ShownFrontPage @@ ShownOnboarding @@ ShownLimits

\* ... and that a closed site has no public default: resolve_default_access_id
\* stores the lower one (Lower).
\* The start of a query that reads the default, which may end with a form that
\* sends everything back.
OpenForm(p) ==
  /\ serving[p] = FreeServer /\ history.forms < MaxForms
  /\ history' = [history EXCEPT !.forms = @ + 1, !.overlap = @ \/ Others(p)]
  /\ Serve(p, [do |-> "read", closed |-> setting.closed])
  /\ UNCHANGED <<setting, logos, configured, mailed>>

Lower(p) ==
  /\ serving[p].do = "read"
  /\ setting' = [setting EXCEPT !.default = IF serving[p].closed /\ @ = 2 THEN 1 ELSE @]
  /\ Serve(p, [do |-> "look"])
  /\ UNCHANGED <<logos, configured, mailed, history>>

\* The form as it is shown is sent back: a file is not, nor is its removal.
SendBack(p) ==
  /\ serving[p].do = "look"
  /\ Serve(p, [do |-> "form", resent |-> TRUE, form |-> Shown,
               todo |-> SelectSeq(Order, LAMBDA x : x \notin {"logo", "removeLogo"})])
  /\ UNCHANGED <<setting, logos, configured, mailed, history>>

Leave(p) ==
  /\ serving[p].do = "look"
  /\ Serve(p, FreeServer)
  /\ UNCHANGED <<setting, logos, configured, mailed, history>>

(***************************************************************************)
(* resolve_edit_site_setting.                                              *)
(***************************************************************************)
EditSettings(p) ==
  /\ serving[p] = FreeServer /\ history.forms < MaxForms
  /\ \E form \in Forms[history.theme] :
       Serve(p, [do |-> "form", resent |-> FALSE, form |-> form,
                 todo |-> SelectSeq(Order, LAMBDA x : x \in DOMAIN form)])
  /\ history' = [history EXCEPT !.forms = @ + 1, !.overlap = @ \/ Others(p)]
  /\ UNCHANGED <<setting, logos, configured, mailed>>

\* validate_redirects, and the checks of the others.
Loops(list) == \E x, y \in list : x[2] = y[1]
\* Mutant of Valid: the redirects of a path to itself alone are a loop.
ValidButChains(part, v) ==
  CASE part = "redirects" -> Cardinality(v) <= MaxRedirects /\ ~\E x \in v : x[1] = x[2]
    [] part = "abstract"  -> v <= MaxAbstract
    [] part = "logo"      -> v # NoLogo
    [] OTHER -> TRUE
\* Mutant of Valid: the limit itself is passed by one.
ValidOverLimit(part, v) ==
  CASE part = "redirects" -> Cardinality(v) <= MaxRedirects /\ ~Loops(v)
    [] part = "abstract"  -> v <= MaxAbstract + 1
    [] part = "logo"      -> v # NoLogo
    [] OTHER -> TRUE
Valid(part, v) ==
  CASE part = "redirects" -> Cardinality(v) <= MaxRedirects /\ ~Loops(v)
    [] part = "abstract"  -> v <= MaxAbstract
    [] part = "logo"      -> v # NoLogo
    [] OTHER -> TRUE

Refuse(p) ==
  /\ serving[p].do = "form" /\ serving[p].todo # <<>>
  /\ LET part == Head(serving[p].todo) IN part \in Parts /\ ~Valid(part, Value(p))
  /\ Serve(p, [serving[p] EXCEPT !.todo = <<>>])
  /\ UNCHANGED <<setting, logos, configured, mailed, history>>

\* save_setting, for a key of the table and for what is stored as it comes.
StorePart(p) ==
  /\ serving[p].do = "form" /\ serving[p].todo # <<>>
  /\ LET part == Head(serving[p].todo) IN
       /\ part \in Parts \ {"redirects", "logo", "removeLogo", "walled", "closed"}
       /\ Valid(part, Value(p))
       /\ setting' = [setting EXCEPT ![part] = Value(p)]
       /\ history' = [history EXCEPT !.chosen = @ \/ (part = "indexing" /\ Value(p) /\ setting.walled)]
  /\ Advance(p)
  /\ UNCHANGED <<logos, configured, mailed>>

\* Of two redirects of one path the later in the list is kept.
StoreRedirects(p) ==
  /\ Doing(p, "redirects") /\ Valid("redirects", Value(p))
  /\ \E t \in [{x[1] : x \in Value(p)} -> Paths \cup {Away}] :
       /\ \A x \in DOMAIN t : <<x, t[x]>> \in Value(p)
       /\ setting' = [setting EXCEPT !.redirects = t]
  /\ Advance(p)
  /\ UNCHANGED <<logos, configured, mailed, history>>

\* Mutant of Unindexed: the value of the wall is not looked at.
UnindexedAlways(p) == <<"unindex">>
\* Mutant of Unindexed: indexing is left alone.
UnindexedNever(p) == <<>>
Unindexed(p) == IF Value(p) THEN <<"unindex">> ELSE <<>>
StoreWall(p) ==
  /\ Doing(p, "walled")
  /\ setting' = [setting EXCEPT !.walled = Value(p)]
  /\ Serve(p, [serving[p] EXCEPT !.todo = Unindexed(p) \o Tail(@)])
  /\ UNCHANGED <<logos, configured, mailed, history>>

Unindex(p) ==
  /\ Doing(p, "unindex")
  /\ setting' = [setting EXCEPT !.indexing = FALSE]
  /\ Advance(p)
  /\ UNCHANGED <<logos, configured, mailed, history>>

\* create_configuration_file: the file, unless a virus is found in it ...
CreateLogo(p) ==
  /\ Doing(p, "logo") /\ Valid("logo", Value(p))
  /\ \/ /\ Value(p) \notin logos
        /\ logos' = logos \cup {Value(p)}
        /\ Serve(p, [serving[p] EXCEPT !.todo = <<"configure", "storeLogo">> \o Tail(@)])
     \/ Serve(p, [serving[p] EXCEPT !.todo = <<>>]) /\ UNCHANGED logos
  /\ UNCHANGED <<setting, configured, mailed, history>>

\* ... update_configuration, which drops the other references, ...
ConfigureLogo(p) ==
  /\ Doing(p, "configure")
  /\ configured' = {serving[p].form.logo} \cap logos
  /\ Advance(p)
  /\ UNCHANGED <<setting, logos, mailed, history>>

\* ... and the setting.
StoreLogo(p) ==
  /\ Doing(p, "storeLogo")
  /\ setting' = [setting EXCEPT !.logo = serving[p].form.logo]
  /\ Advance(p)
  /\ UNCHANGED <<logos, configured, mailed, history>>

\* Mutant of LogoCleared: the setting keeps the path of the file.
LogoClearedNot(p) == <<>>
LogoCleared(p) == <<"clearLogo">>
DeleteLogo(p) ==
  /\ Doing(p, "removeLogo")
  /\ logos' = logos \ {setting.logo}
  /\ configured' = configured \ {setting.logo}
  /\ Serve(p, [serving[p] EXCEPT !.todo = LogoCleared(p) \o Tail(@)])
  /\ UNCHANGED <<setting, mailed, history>>

ClearLogo(p) ==
  /\ Doing(p, "clearLogo")
  /\ setting' = [setting EXCEPT !.logo = NoLogo]
  /\ Advance(p)
  /\ UNCHANGED <<logos, configured, mailed, history>>

\* The mails go out before the setting is saved.
\* Mutant of Said: they say how it was.
SaidOld(p) == setting.closed
Said(p) == Value(p)
MailClosed(p) ==
  /\ Doing(p, "closed")
  /\ IF setting.closed = Value(p)
     THEN Advance(p) /\ UNCHANGED mailed
     ELSE /\ mailed' = Said(p)
          /\ Serve(p, [serving[p] EXCEPT !.todo = <<"storeClosed">> \o Tail(@)])
  /\ UNCHANGED <<setting, logos, configured, history>>

StoreClosed(p) ==
  /\ Doing(p, "storeClosed")
  /\ setting' = [setting EXCEPT !.closed = serving[p].form.closed]
  /\ Advance(p)
  /\ UNCHANGED <<logos, configured, mailed, history>>

Answer(p) ==
  /\ serving[p].do = "form" /\ serving[p].todo = <<>>
  /\ Serve(p, FreeServer)
  /\ UNCHANGED <<setting, logos, configured, mailed, history>>

\* A process dies while it serves a form.
ServerDies(p) ==
  /\ serving[p].do = "form" /\ history.crashes < MaxCrashes
  /\ Serve(p, FreeServer)
  /\ history' = [history EXCEPT !.crashes = @ + 1]
  /\ UNCHANGED <<setting, logos, configured, mailed>>

\* cleanup_tasks: files nothing refers to go.
CollectLogos ==
  /\ logos' = {f \in logos : f \in configured \/ \E p \in Servers : serving[p].do = "form" /\ Doing(p, "configure")}
  /\ logos' # logos
  /\ UNCHANGED <<setting, configured, mailed, serving, history>>

(***************************************************************************)
(* A visitor's browser: it asks for a path and follows where it is sent.   *)
(***************************************************************************)
Visitors == [member : BOOLEAN, complete : BOOLEAN, inside : BOOLEAN]

Visit(p) ==
  /\ serving[p] = FreeServer /\ history.visits < MaxVisits
  /\ \E v \in Visitors, path \in Paths :
       Serve(p, [do |-> "wall", who |-> v, path |-> path, hops |-> 0])
  /\ history' = [history EXCEPT !.visits = @ + 1, !.overlap = @ \/ Others(p)]
  /\ UNCHANGED <<setting, logos, configured, mailed>>

\* WalledGardenMiddleware answers with the login page.
TurnedAway(v) == ~v.member /\ (setting.closed \/ (setting.walled /\ ~v.inside))
Wall(p) ==
  /\ serving[p].do = "wall"
  /\ Serve(p, IF TurnedAway(serving[p].who) THEN FreeServer ELSE [serving[p] EXCEPT !.do = "onboard"])
  /\ UNCHANGED <<setting, logos, configured, mailed, history>>

\* OnboardingMiddleware sends a member with a mandatory field to fill in to the
\* form; the view sends him to the start page if there is no introduction and
\* no field for it, and the start page sends him back.
OnboardVisitor(p) ==
  /\ serving[p].do = "onboard"
  /\ LET v == serving[p].who IN
     Serve(p, IF v.member /\ ~v.complete /\ setting.forced
              THEN IF setting.intro \/ serving[p].hops > 3 THEN FreeServer
                   ELSE [serving[p] EXCEPT !.do = "wall", !.hops = @ + 2]
              ELSE [serving[p] EXCEPT !.do = "redirect"])
  /\ UNCHANGED <<setting, logos, configured, mailed, history>>

\* RedirectMiddleware looks for the path and reads the table again for the
\* destination: a path that is no longer there is an error.
Redirect(p) ==
  /\ serving[p].do = "redirect"
  /\ Serve(p, IF serving[p].path \in DOMAIN setting.redirects
              THEN [serving[p] EXCEPT !.do = "destination"] ELSE FreeServer)
  /\ UNCHANGED <<setting, logos, configured, mailed, history>>

FollowRedirect(p) ==
  /\ serving[p].do = "destination"
  /\ LET path == serving[p].path
         t == setting.redirects IN
     Serve(p, IF path \in DOMAIN t /\ t[path] # Away /\ serving[p].hops <= 3
              THEN [serving[p] EXCEPT !.do = "wall", !.path = t[path], !.hops = @ + 1] ELSE FreeServer)
  /\ UNCHANGED <<setting, logos, configured, mailed, history>>

-----------------------------------------------------------------------------
SettingsStep(p) ==
  \/ OpenForm(p) \/ Lower(p) \/ SendBack(p) \/ Leave(p)
  \/ EditSettings(p) \/ Refuse(p) \/ StorePart(p) \/ StoreRedirects(p) \/ StoreWall(p) \/ Unindex(p)
  \/ CreateLogo(p) \/ ConfigureLogo(p) \/ StoreLogo(p) \/ DeleteLogo(p) \/ ClearLogo(p)
  \/ MailClosed(p) \/ StoreClosed(p) \/ Answer(p) \/ ServerDies(p)
  \/ Visit(p) \/ Wall(p) \/ OnboardVisitor(p) \/ Redirect(p) \/ FollowRedirect(p)
SettingsNext == CollectLogos \/ \E p \in Servers : SettingsStep(p)
SettingsSpec == SettingsInit /\ [][SettingsNext]_settings

(***************************************************************************)
(* Properties.                                                             *)
(***************************************************************************)
\* Every setting holds a value its check accepts, also after a form that was
\* refused halfway.
SettingsTypeOK ==
  /\ setting.default \in 0..2 /\ setting.header \in Colours \cup {NoColour}
  /\ {setting.indexing, setting.intro, setting.forced, setting.walled, setting.closed, mailed} \subseteq BOOLEAN
  /\ setting.primary \in Colours /\ setting.logo \in Logos \cup {NoLogo}
  /\ setting.redirects \in Tables /\ Cardinality(DOMAIN setting.redirects) <= MaxRedirects
  /\ setting.abstract \in 0..MaxAbstract
  /\ configured \subseteq logos /\ logos \subseteq Logos
  /\ DOMAIN serving = Servers

\* A browser is sent on at most once by the redirects, whatever lists were
\* accepted before, unless they change on its way; a member who has to fill in
\* his profile is not sent round either if the form has something to say.
HopsBound ==
  ~history.overlap =>
    \A p \in Servers : serving[p].do = "wall" /\ (setting.forced => setting.intro) => serving[p].hops <= 1

\* A form that is sent back as it was shown changes nothing that is shown,
\* except that a wall ends the indexing that was chosen after it.
ResendKeeps ==
  \A p \in Servers :
    /\ serving[p].do = "form" /\ serving[p].todo = <<>> /\ serving[p].resent
    /\ ~history.overlap
    /\ ~(serving[p].form.walled /\ serving[p].form.indexing)
    => Shown = serving[p].form

AllFree == \A p \in Servers : serving[p] = FreeServer
Calm    == AllFree /\ ~history.overlap /\ history.crashes = 0

\* Search engines do not index a site behind a wall, unless an administrator
\* chose so with the wall in place, also when several edit the settings.
WallHides ==
  AllFree /\ history.crashes = 0 /\ setting.walled /\ setting.indexing => history.chosen

\* The logo of the site is a file that is there and that is kept.
LogoKept == Calm /\ setting.logo # NoLogo => setting.logo \in logos \cap configured

\* The last mail about it tells the administrators whether the site is closed.
MailTells == Calm => mailed = setting.closed

\* What the settings of a site keep to, whichever form was sent last.
SettingsSound == SettingsTypeOK /\ HopsBound /\ ResendKeeps /\ WallHides /\ LogoKept /\ MailTells
=============================================================================
