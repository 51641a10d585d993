-------------------------- MODULE ConfigFormProofs --------------------------
(***************************************************************************)
(* The safety of ConfigForm for any servers, connections, libraries and    *)
(* collections, and any number of late answers and of changes.             *)
(***************************************************************************)
EXTENDS ConfigForm, TLAPS

Values ==
  [server : Server \cup {None}, url : Url \cup {None}, sections : SUBSET Section,
   include : BOOLEAN, collections : SUBSET Collection]

(* Whatever is selected belongs to the selected server.                     *)
Fits(f) ==
  /\ f.url # None => Authorized(f.server, f.url)
  /\ f.sections # {} => f.server \in Server /\ f.sections \subseteq Holds[f.server]

SettingsInv == settings \in Values /\ Fits(settings)

(* The lists are those of the current settings, and what is known is what   *)
(* Plex has.                                                                *)
ListsInv ==
  /\ sections \in [items : SUBSET Section, for : {SectionsFor(settings)},
                   loading : BOOLEAN, known : BOOLEAN]
  /\ collections \in [items : SUBSET Collection, for : {CollectionsFor(settings)},
                      loading : BOOLEAN, known : BOOLEAN]
  /\ sections.items \subseteq PlexSections(settings.server, settings.url)
  /\ sections.known =>
       settings.url # None /\ sections.items = PlexSections(settings.server, settings.url)
  /\ collections.known =>
       collections.items = PlexCollections(settings.server, settings.url, settings.sections)

(* A request in use is the one a list waits for.                            *)
LoadsInv ==
  /\ \A l \in loads : l = [kind |-> l.kind, for |-> l.for, active |-> l.active]
                        /\ l.active \in BOOLEAN
  /\ Active("sections") = IF sections.loading THEN {Load("sections", SectionsFor(settings))} ELSE {}
  /\ Active("collections") = IF collections.loading
                             THEN {Load("collections", CollectionsFor(settings))} ELSE {}
  /\ sections.loading => settings.url # None

Submissions ==
  [pc : {"creating", "copying"}, copying : BOOLEAN, edits : Nat, chosen : Values,
   sent : [server : Server \cup {None}, url : Url \cup {None},
           sections : SUBSET Section, collections : SUBSET Collection],
   known : [sections : BOOLEAN, collections : BOOLEAN]]

(* A submission that no change has overtaken is of the current settings.    *)
SubmissionInv ==
  /\ submission \in Submissions \/ submission = Idle
  /\ submission # Idle /\ submission.edits = 0 => submission.chosen = settings
  /\ ChosenIsSent

ShownInv ==
  /\ OnlyCurrentIsHandedOver
  /\ status \in {"", "copied", "ready", "select"}
  /\ copies \subseteq {"shown", "old"}

IInv == SettingsInv /\ ListsInv /\ LoadsInv /\ SubmissionInv /\ ShownInv

-----------------------------------------------------------------------------
LEMMA FormInit == Init => IInv
  <1> SUFFICES ASSUME Init PROVE IInv
    OBVIOUS
  <1> USE DEF Init
  <1>1. SettingsInv
    BY DEF SettingsInv, Values, Fits, Blank
  <1>2. ListsInv
    BY DEF ListsInv, Empty
  <1>3. LoadsInv
    BY DEF LoadsInv, Empty, Active
  <1>4. SubmissionInv
    BY DEF SubmissionInv, Idle, ChosenIsSent
  <1>5. ShownInv
    BY DEF ShownInv, OnlyCurrentIsHandedOver
  <1>6. QED BY <1>1, <1>2, <1>3, <1>4, <1>5 DEF IInv

(* The requests in use after a change are those in use before that are      *)
(* still for what the form holds.                                           *)
LEMMA KeptInUse ==
  ASSUME LoadsInv, NEW f
  PROVE  /\ \A l \in Kept(f) : l = [kind |-> l.kind, for |-> l.for, active |-> l.active]
                               /\ l.active \in BOOLEAN
         /\ {l \in Kept(f) : l.kind = "sections" /\ l.active}
              = {l \in Active("sections") : l.for = SectionsFor(f)}
         /\ {l \in Kept(f) : l.kind = "collections" /\ l.active}
              = {l \in Active("collections") : l.for = CollectionsFor(f)}
  <1> DEFINE For(l) == IF l.kind = "sections" THEN SectionsFor(f) ELSE CollectionsFor(f)
             Used(l) == l.active /\ l.for = For(l)
             Now(l) == [l EXCEPT !.active = Used(l)]
  <1>1. Kept(f) = {Now(l) : l \in loads}
    BY Zenon DEF Kept
  <1>2. ASSUME NEW l \in loads
        PROVE  /\ Now(l).kind = l.kind /\ Now(l).for = l.for
               /\ Now(l) = [kind |-> l.kind, for |-> l.for, active |-> Used(l)]
    BY DEF LoadsInv
  <1>3. ASSUME NEW l \in loads, Used(l)
        PROVE  Now(l) = l
    <2>1. l.active = TRUE
      BY <1>3 DEF LoadsInv
    <2>2. Used(l) = TRUE
      BY <1>3
    <2>3. QED BY <2>1, <2>2 DEF LoadsInv
  <1>4. ASSUME NEW k \in Kept(f)
        PROVE  /\ k = [kind |-> k.kind, for |-> k.for, active |-> k.active]
               /\ k.active \in BOOLEAN
               /\ k.active => k \in loads /\ Used(k)
    <2>1. PICK l \in loads : k = Now(l)
      BY <1>1
    <2>2. Used(l) \in BOOLEAN
      OBVIOUS
    <2>3. k = [kind |-> k.kind, for |-> k.for, active |-> k.active] /\ k.active = Used(l)
      BY <1>2, <2>1
    <2>4. QED BY <1>3, <2>1, <2>2, <2>3
  <1>5. \A l \in loads : Used(l) => l \in Kept(f)
    BY <1>1, <1>3
  <1> HIDE DEF Now
  <1>6. {l \in Kept(f) : l.kind = "sections" /\ l.active}
          = {l \in Active("sections") : l.for = SectionsFor(f)}
    BY <1>4, <1>5 DEF Active
  <1>7. {l \in Kept(f) : l.kind = "collections" /\ l.active}
          = {l \in Active("collections") : l.for = CollectionsFor(f)}
    BY <1>4, <1>5 DEF Active
  <1>8. QED BY <1>4, <1>6, <1>7

(* A change that keeps the values fitting together keeps everything else.   *)
LEMMA ChangeKeeps ==
  ASSUME IInv, NEW f \in Values, Fits(f), Change(f)
  PROVE  IInv'
  <1> DEFINE newSections == SectionsFor(f) # SectionsFor(settings)
             newCollections == CollectionsFor(f) # CollectionsFor(settings)
             askSections == newSections /\ f.url # None
             askCollections == newCollections /\ f.include /\ f.url # None /\ f.sections # {}
  <1> USE DEF IInv
  <1>1. /\ settings' = f
        /\ sections' = IF newSections THEN Empty(SectionsFor(f), askSections) ELSE sections
        /\ collections' = IF newCollections THEN Empty(CollectionsFor(f), askCollections)
                                            ELSE collections
        /\ loads' = Kept(f)
             \cup (IF askSections THEN {Load("sections", SectionsFor(f))} ELSE {})
             \cup (IF askCollections THEN {Load("collections", CollectionsFor(f))} ELSE {})
    BY DEF Change, Effects
  <1>2. SettingsInv'
    BY <1>1 DEF SettingsInv, Fits, Authorized
  <1>3. askSections \in BOOLEAN /\ askCollections \in BOOLEAN
    OBVIOUS
  <1>4. ListsInv'
    <2>1. /\ sections' \in [items : SUBSET Section, for : {SectionsFor(f)},
                            loading : BOOLEAN, known : BOOLEAN]
          /\ sections'.items \subseteq PlexSections(f.server, f.url)
          /\ sections'.known =>
               f.url # None /\ sections'.items = PlexSections(f.server, f.url)
      <3>1. CASE newSections
        BY <1>1, <1>3, <3>1 DEF Empty
      <3>2. CASE ~newSections
        BY <1>1, <3>2 DEF ListsInv, SectionsFor
      <3>3. QED BY <3>1, <3>2
    <2>2. /\ collections' \in [items : SUBSET Collection, for : {CollectionsFor(f)},
                               loading : BOOLEAN, known : BOOLEAN]
          /\ collections'.known =>
               collections'.items = PlexCollections(f.server, f.url, f.sections)
      <3>1. CASE newCollections
        BY <1>1, <1>3, <3>1 DEF Empty
      <3>2. CASE ~newCollections
        BY <1>1, <3>2 DEF ListsInv, CollectionsFor
      <3>3. QED BY <3>1, <3>2
    <2>3. QED BY <1>1, <2>1, <2>2 DEF ListsInv, PlexSections, PlexCollections, Authorized, SectionsFor, CollectionsFor
  <1>5. LoadsInv'
    <2>1. \A l \in loads' : /\ l = [kind |-> l.kind, for |-> l.for, active |-> l.active]
                            /\ l.active \in BOOLEAN
      <3>1. ASSUME NEW l \in Kept(f)
            PROVE  l = [kind |-> l.kind, for |-> l.for, active |-> l.active] /\ l.active \in BOOLEAN
        BY KeptInUse
      <3>2. ASSUME NEW kind, NEW for, NEW l, l = Load(kind, for)
            PROVE  l = [kind |-> l.kind, for |-> l.for, active |-> l.active] /\ l.active \in BOOLEAN
        BY <3>2 DEF Load
      <3>3. QED BY <1>1, <3>1, <3>2
    <2>2. {l \in loads' : l.kind = "sections" /\ l.active}
            = {l \in Active("sections") : l.for = SectionsFor(f)}
                \cup (IF askSections THEN {Load("sections", SectionsFor(f))} ELSE {})
      BY <1>1, KeptInUse DEF Load
    <2>3. {l \in loads' : l.kind = "collections" /\ l.active}
            = {l \in Active("collections") : l.for = CollectionsFor(f)}
                \cup (IF askCollections THEN {Load("collections", CollectionsFor(f))} ELSE {})
      BY <1>1, KeptInUse DEF Load
    <2>4. Active("sections")' = IF sections'.loading THEN {Load("sections", SectionsFor(f))} ELSE {}
      <3>1. CASE newSections
        BY <1>1, <2>2, <3>1 DEF LoadsInv, Active, Empty, Load
      <3>2. CASE ~newSections
        BY <1>1, <2>2, <3>2 DEF LoadsInv, Active, Load
      <3>3. QED BY <3>1, <3>2
    <2>5. Active("collections")' = IF collections'.loading
                                   THEN {Load("collections", CollectionsFor(f))} ELSE {}
      <3>1. CASE newCollections
        BY <1>1, <2>3, <3>1 DEF LoadsInv, Active, Empty, Load
      <3>2. CASE ~newCollections
        BY <1>1, <2>3, <3>2 DEF LoadsInv, Active, Load
      <3>3. QED BY <3>1, <3>2
    <2>6. sections'.loading => f.url # None
      BY <1>1 DEF LoadsInv, Empty, SectionsFor
    <2>7. QED BY <1>1, <2>1, <2>4, <2>5, <2>6 DEF LoadsInv, Load, SectionsFor, CollectionsFor
  <1>6. SubmissionInv'
    <2>1. submission' = [submission EXCEPT !.edits = IF submission.pc = "idle" THEN 0 ELSE @ + 1]
      BY DEF Change
    <2>2. CASE submission = Idle
      <3>1. submission' = Idle
        BY <2>1, <2>2 DEF Idle
      <3>2. QED BY <3>1 DEF SubmissionInv, ChosenIsSent, Idle
    <2>3. CASE submission \in Submissions
      <3>1. /\ submission' \in Submissions
            /\ submission'.edits # 0
            /\ submission'.pc = submission.pc
            /\ submission'.chosen = submission.chosen
            /\ submission'.sent = submission.sent
            /\ submission'.known = submission.known
        BY <2>1, <2>3 DEF Submissions
      <3>2. QED BY <3>1 DEF SubmissionInv, ChosenIsSent, Accepts, Authorized
    <2>4. QED BY <2>2, <2>3 DEF SubmissionInv
  <1>7. ShownInv'
    BY DEF ShownInv, Change, Withdraw, OnlyCurrentIsHandedOver
  <1>8. QED BY <1>2, <1>4, <1>5, <1>6, <1>7

(* Every step keeps the invariant.                                          *)
LEMMA FormStep == IInv /\ [Next]_vars => IInv'
  <1> SUFFICES ASSUME IInv, [Next]_vars PROVE IInv'
    OBVIOUS
  <1> USE DEF IInv
  <1>1. ASSUME NEW s \in Server, ChooseServer(s) PROVE IInv'
    <2>1. [Blank EXCEPT !.server = s] \in Values /\ Fits([Blank EXCEPT !.server = s])
      BY DEF Blank, Values, Fits
    <2>2. QED BY <1>1, <2>1, ChangeKeeps DEF ChooseServer
  <1>2. ASSUME NEW u \in Url, ChooseUrl(u) PROVE IInv'
    <2>1. [settings EXCEPT !.url = u] \in Values /\ Fits([settings EXCEPT !.url = u])
      BY <1>2 DEF ChooseUrl, SettingsInv, Values, Fits, Authorized
    <2>2. QED BY <1>2, <2>1, ChangeKeeps DEF ChooseUrl
  <1>3. ASSUME NEW s \in Section, ToggleSection(s) PROVE IInv'
    <2> DEFINE f == [settings EXCEPT !.sections = Toggled(@, s)]
    <2>1. s \in PlexSections(settings.server, settings.url)
      BY <1>3 DEF ToggleSection, ListsInv
    <2>2. settings.server \in Server /\ s \in Holds[settings.server]
      BY <2>1, ParamAssumption DEF PlexSections, Authorized
    <2>3. f \in Values /\ Fits(f)
      BY <2>2 DEF SettingsInv, Values, Fits, Toggled, Authorized
    <2>4. QED BY <1>3, <2>3, ChangeKeeps DEF ToggleSection
  <1>4. CASE ToggleInclude
    <2> DEFINE f == [settings EXCEPT !.include = ~@]
    <2>1. f \in Values /\ Fits(f)
      BY DEF SettingsInv, Values, Fits, Authorized
    <2>2. QED BY <1>4, <2>1, ChangeKeeps DEF ToggleInclude
  <1>5. ASSUME NEW c \in Collection, ToggleCollection(c) PROVE IInv'
    <2> DEFINE f == [settings EXCEPT !.collections = Toggled(@, c)]
    <2>1. f \in Values /\ Fits(f)
      BY DEF SettingsInv, Values, Fits, Toggled, Authorized
    <2>2. QED BY <1>5, <2>1, ChangeKeeps DEF ToggleCollection
  <1>6. ASSUME NEW l \in loads, Answer(l) PROVE IInv'
    <2> DEFINE list == CASE l.kind = "sections" -> PlexSections(l.for[1], l.for[2])
                         [] l.kind = "collections" -> PlexCollections(l.for[1], l.for[2], l.for[3])
               answers == {[items |-> list, for |-> l.for, loading |-> FALSE, known |-> TRUE],
                           Failed(l.for)}
    <2>1. /\ settings' = settings /\ submission' = submission /\ UNCHANGED shown
          /\ loads' = loads \ {l}
          /\ sections' \in IF l.active /\ l.kind = "sections" THEN answers ELSE {sections}
          /\ collections' \in IF l.active /\ l.kind = "collections" THEN answers ELSE {collections}
      BY <1>6 DEF Answer
    <2>2. SettingsInv'
      BY <2>1 DEF SettingsInv, Fits, Authorized
    <2>3. SubmissionInv'
      BY <2>1 DEF SubmissionInv, ChosenIsSent, Accepts, Authorized
    <2>4. ShownInv'
      BY <2>1 DEF ShownInv, OnlyCurrentIsHandedOver, shown
    <2>5. CASE l.active /\ l.kind = "sections"
      <3>1. l = Load("sections", SectionsFor(settings)) /\ settings.url # None
        BY <2>5 DEF LoadsInv, Active
      <3>2. /\ l.for = SectionsFor(settings)
            /\ list = PlexSections(settings.server, settings.url)
        BY <3>1 DEF Load, SectionsFor
      <3>3. collections' = collections
        BY <2>1, <2>5
      <3>4. PlexSections(settings.server, settings.url) \subseteq Section
        BY ParamAssumption DEF PlexSections, Authorized
      <3>5. /\ sections' \in [items : SUBSET Section, for : {SectionsFor(settings)},
                              loading : {FALSE}, known : BOOLEAN]
            /\ sections'.items \subseteq PlexSections(settings.server, settings.url)
            /\ sections'.known => sections'.items = PlexSections(settings.server, settings.url)
        <4>1. CASE sections' = [items |-> list, for |-> l.for, loading |-> FALSE, known |-> TRUE]
          BY <3>2, <3>4, <4>1
        <4>2. CASE sections' = Failed(l.for)
          BY <3>2, <4>2 DEF Failed, Empty
        <4>3. QED BY <2>1, <2>5, <4>1, <4>2
      <3>6. ListsInv'
        BY <2>1, <3>1, <3>3, <3>5 DEF ListsInv, PlexSections, PlexCollections, Authorized, SectionsFor,
           CollectionsFor
      <3>7. Active("sections")' = {}
        BY <2>1, <3>1 DEF LoadsInv, Active
      <3>8. Active("collections")' = Active("collections")
        BY <2>1, <2>5 DEF Active
      <3>9. LoadsInv'
        BY <2>1, <3>3, <3>5, <3>7, <3>8 DEF LoadsInv, Load, CollectionsFor, SectionsFor
      <3>10. QED BY <2>2, <2>3, <2>4, <3>6, <3>9
    <2>6. CASE l.active /\ l.kind = "collections"
      <3>1. l = Load("collections", CollectionsFor(settings))
        BY <2>6 DEF LoadsInv, Active
      <3>2. /\ l.for = CollectionsFor(settings)
            /\ list = PlexCollections(settings.server, settings.url, settings.sections)
        BY <3>1 DEF Load, CollectionsFor
      <3>3. sections' = sections
        BY <2>1, <2>6
      <3>4. PlexCollections(settings.server, settings.url, settings.sections) \subseteq Collection
        BY DEF PlexCollections
      <3>5. /\ collections' \in [items : SUBSET Collection, for : {CollectionsFor(settings)},
                                 loading : {FALSE}, known : BOOLEAN]
            /\ collections'.known =>
                 collections'.items = PlexCollections(settings.server, settings.url, settings.sections)
        <4>1. CASE collections' = [items |-> list, for |-> l.for, loading |-> FALSE, known |-> TRUE]
          BY <3>2, <3>4, <4>1
        <4>2. CASE collections' = Failed(l.for)
          BY <3>2, <4>2 DEF Failed, Empty
        <4>3. QED BY <2>1, <2>6, <4>1, <4>2
      <3>6. ListsInv'
        BY <2>1, <3>3, <3>5 DEF ListsInv, PlexSections, PlexCollections, Authorized, SectionsFor,
           CollectionsFor
      <3>7. Active("collections")' = {}
        BY <2>1, <3>1 DEF LoadsInv, Active
      <3>8. Active("sections")' = Active("sections")
        BY <2>1, <2>6 DEF Active
      <3>9. LoadsInv'
        BY <2>1, <3>3, <3>5, <3>7, <3>8 DEF LoadsInv, Load, CollectionsFor, SectionsFor
      <3>10. QED BY <2>2, <2>3, <2>4, <3>6, <3>9
    <2>7. CASE ~l.active
      <3>1. sections' = sections /\ collections' = collections
        BY <2>1, <2>7
      <3>2. ListsInv'
        BY <2>1, <3>1 DEF ListsInv, PlexSections, PlexCollections, Authorized, SectionsFor,
           CollectionsFor
      <3>3. LoadsInv'
        BY <2>1, <2>7, <3>1 DEF LoadsInv, Active, Load, SectionsFor, CollectionsFor
      <3>4. QED BY <2>2, <2>3, <2>4, <3>2, <3>3
    <2>8. CASE l.active /\ l.kind \notin {"sections", "collections"}
      <3>1. sections' = sections /\ collections' = collections
        BY <2>1, <2>8
      <3>2. ListsInv'
        BY <2>1, <3>1 DEF ListsInv, PlexSections, PlexCollections, Authorized, SectionsFor,
           CollectionsFor
      <3>3. LoadsInv'
        BY <2>1, <2>8, <3>1 DEF LoadsInv, Active, Load, SectionsFor, CollectionsFor
      <3>4. QED BY <2>2, <2>3, <2>4, <3>2, <3>3
    <2>9. QED BY <2>5, <2>6, <2>7, <2>8
  <1> DEFINE Loaded == SettingsInv /\ ListsInv /\ LoadsInv
  <1>7. ASSUME UNCHANGED <<settings, lists>> PROVE Loaded'
    BY <1>7 DEF lists, SettingsInv, Fits, ListsInv, LoadsInv, Active, Load, SectionsFor,
       CollectionsFor, PlexSections, PlexCollections, Authorized
  <1>8. ASSUME NEW copying \in BOOLEAN, Submit(copying) PROVE IInv'
    <2>1. ShownInv'
      BY <1>8 DEF Submit, ShownInv, Withdraw, OnlyCurrentIsHandedOver
    <2>2. CASE settings.url = None
      BY <1>7, <1>8, <2>1, <2>2 DEF Submit, SubmissionInv, Idle, ChosenIsSent
    <2>3. CASE settings.url # None
      <3>1. /\ submission' = [pc |-> "creating", copying |-> copying, edits |-> 0,
                              chosen |-> settings, sent |-> Normalized,
                              known |-> [sections |-> sections.known,
                                         collections |-> collections.known]]
            /\ settings' = settings
        BY <1>8, <2>3 DEF Submit
      <3>2. Normalized \in [server : Server \cup {None}, url : Url \cup {None},
                           sections : SUBSET Section, collections : SUBSET Collection]
        BY DEF Normalized, SettingsInv, Values, ListsInv
      <3>3. submission' \in Submissions
        BY <3>1, <3>2 DEF Submissions, SettingsInv, ListsInv
      <3>4. ASSUME sections.known
            PROVE  LET wanted == {c \in settings.collections :
                                    settings.include /\ c.section \in settings.sections}
                   IN /\ Normalized.sections = settings.sections
                      /\ collections.known => Normalized.collections = wanted
                      /\ Accepts(Normalized)
        <4>1. settings.sections \subseteq sections.items
          BY <2>3, <3>4 DEF ListsInv, SettingsInv, Fits, PlexSections
        <4>2. Accepts(Normalized)
          BY <2>3, <4>1 DEF Accepts, Normalized, SettingsInv, Fits
        <4>3. ASSUME collections.known, NEW c \in settings.collections,
                     c.section \in settings.sections
              PROVE  c \in collections.items
          BY <2>3, <4>3 DEF ListsInv, SettingsInv, Values, Fits, PlexCollections
        <4>4. QED BY <4>1, <4>2, <4>3 DEF Normalized
      <3>5. ChosenIsSent'
        BY <3>1, <3>4 DEF ChosenIsSent, Accepts, Authorized
      <3>6. SubmissionInv'
        BY <3>1, <3>3, <3>5 DEF SubmissionInv
      <3>7. QED BY <1>7, <1>8, <2>1, <3>6 DEF Submit
    <2>4. QED BY <2>2, <2>3
  <1>9. SubmissionInv /\ submission' = Idle => SubmissionInv'
    BY DEF SubmissionInv, Idle, ChosenIsSent
  <1>10. SubmissionInv /\ UNCHANGED <<submission, settings>> => SubmissionInv'
    BY DEF SubmissionInv, ChosenIsSent, Accepts, Authorized
  <1>11. CASE GiveUp
    <2>1. ShownInv'
      BY <1>11 DEF GiveUp, shown, ShownInv, OnlyCurrentIsHandedOver
    <2>2. QED BY <1>7, <1>9, <1>11, <2>1 DEF GiveUp
  <1>12. ASSUME submission.pc # "idle", submission.edits = 0
         PROVE  submission \in Submissions /\ submission.chosen = settings
    BY <1>12 DEF SubmissionInv, Idle
  <1>13. ASSUME NEW ok \in BOOLEAN, submission.pc # "idle", submission.edits = 0, Show(ok)
         PROVE  IInv'
    <2>1. submission.chosen = settings
      BY <1>12, <1>13
    <2>2. ShownInv'
      BY <1>13, <2>1 DEF Show, ShownInv, OnlyCurrentIsHandedOver
    <2>3. QED BY <1>7, <1>9, <1>13, <2>2 DEF Show
  <1>14. ASSUME submission.pc = "creating", submission.edits = 0, Deliver
         PROVE  IInv'
    <2>1. submission \in Submissions /\ submission.chosen = settings
      BY <1>12, <1>14
    <2>2. CASE submission' = [submission EXCEPT !.pc = "copying"] /\ UNCHANGED <<settings, lists, shown>>
      <3>1. /\ submission' \in Submissions
            /\ submission'.chosen = settings'
            /\ submission'.chosen = submission.chosen
            /\ submission'.sent = submission.sent
            /\ submission'.known = submission.known
        BY <2>1, <2>2 DEF Submissions
      <3>2. SubmissionInv'
        BY <1>14, <3>1 DEF SubmissionInv, ChosenIsSent, Accepts, Authorized
      <3>3. ShownInv'
        BY <2>2 DEF shown, ShownInv, OnlyCurrentIsHandedOver
      <3>4. QED BY <1>7, <2>2, <3>2, <3>3
    <2>3. CASE Show(FALSE)
      BY <1>13, <1>14, <2>3
    <2>4. CASE /\ opened' = submission.chosen
               /\ submission' = Idle
               /\ UNCHANGED <<settings, lists, manifest, status, copies, clipboard, overtaken>>
      <3>1. ShownInv'
        BY <2>1, <2>4 DEF ShownInv, OnlyCurrentIsHandedOver
      <3>2. QED BY <1>7, <1>9, <2>4, <3>1
    <2>5. QED BY <1>14, <2>2, <2>3, <2>4 DEF Deliver
  <1>15. ASSUME submission.pc = "creating", Checked(Deliver) PROVE IInv'
    BY <1>11, <1>14, <1>15 DEF Checked, SubmissionInv, Submissions, Idle
  <1>16. ASSUME NEW ok \in BOOLEAN, Copied(ok) PROVE IInv'
    BY <1>11, <1>13, <1>16 DEF Copied, Checked, SubmissionInv, Submissions, Idle
  <1>17. ASSUME NEW copy \in copies, NEW ok \in BOOLEAN, ButtonCopied(copy, ok) PROVE IInv'
    <2>1. ShownInv'
      BY <1>17 DEF ButtonCopied, ShownInv, OnlyCurrentIsHandedOver
    <2>2. QED BY <1>7, <1>10, <1>17, <2>1 DEF ButtonCopied
  <1>18. CASE PressCopy
    <2>1. ShownInv'
      BY <1>18 DEF PressCopy, ShownInv, OnlyCurrentIsHandedOver
    <2>2. QED BY <1>7, <1>10, <1>18, <2>1 DEF PressCopy
  <1>19. CASE UNCHANGED vars
    <2>1. ShownInv'
      BY <1>19 DEF vars, shown, ShownInv, OnlyCurrentIsHandedOver
    <2>2. QED BY <1>7, <1>10, <1>19, <2>1 DEF vars
  <1>20. QED
    BY <1>1, <1>2, <1>3, <1>4, <1>5, <1>6, <1>8, <1>11, <1>15, <1>16, <1>17, <1>18, <1>19
       DEF Next, Edit, SessionAnswers, SessionCreated, SessionRefused

LEMMA FormInvariant == Spec => []IInv
  BY FormInit, FormStep, PTL DEF Spec

-----------------------------------------------------------------------------
(* The form's values fit together, and a list is loading exactly while one  *)
(* request for it, of the current settings, is in use, whatever was         *)
(* answered late: usePMSSections.tsx and usePMSCollections.tsx.             *)
THEOREM TypeCorrect == Spec => []TypeOK
  <1>1. IInv => TypeOK
    <2> SUFFICES ASSUME IInv PROVE TypeOK
      OBVIOUS
    <2>1. submission.pc \in {"idle", "creating", "copying"}
      BY DEF IInv, SubmissionInv, Submissions, Idle
    <2>2. QED BY <2>1 DEF IInv, TypeOK, SettingsInv, Values, Fits, ListsInv, LoadsInv, ShownInv
  <1>2. QED BY <1>1, FormInvariant, PTL

(* Whatever is edited meanwhile, what onSubmit shows, or opens in Stremio,  *)
(* is of the settings on the screen, and what it says it copied has been    *)
(* copied.                                                                  *)
THEOREM HandsOverCurrent == Spec => []OnlyCurrentIsHandedOver
  BY FormInvariant, PTL DEF IInv, ShownInv

(* The effects never take an answer for what was selected earlier.          *)
THEOREM DropsLateAnswers == Spec => []LateAnswersDropped
  <1>1. IInv => LateAnswersDropped
    BY DEF IInv, ListsInv, LateAnswersDropped
  <1>2. QED BY <1>1, FormInvariant, PTL

(* createManifestUrl sends what was chosen, and create_session accepts it,  *)
(* if the libraries were on the screen.                                     *)
THEOREM SendsTheChosen == Spec => []ChosenIsSent
  <1>1. IInv => ChosenIsSent
    BY DEF IInv, SubmissionInv
  <1>2. QED BY <1>1, FormInvariant, PTL
=============================================================================
