----------------------------- MODULE ConfigForm -----------------------------
(***************************************************************************)
(* The configuration form (frontend/src/components/configurationForm), the *)
(* hooks that load libraries and collections, the clipboard helper, and    *)
(* what the backend answers them (routers/configuration.py).  The browser  *)
(* runs one handler at a time; what interleaves are the user's edits, the  *)
(* answers of requests in flight and the clipboard.                        *)
(*                                                                         *)
(* The form's values are the server, the Discovery URL, the sections and   *)
(* the collections.  The Streaming URL is picked from the same connections *)
(* and reset with the Discovery URL; the switches are like                 *)
(* includeCollections.  A change of either is not told apart from theirs.  *)
(*                                                                         *)
(* configurationRevision is only ever compared with its value at a         *)
(* submission, so edits is the difference.  An install URL is told by the  *)
(* settings it was made from, and copies of it by whether it is the one    *)
(* that is shown.                                                          *)
(***************************************************************************)
EXTENDS FiniteSets, Naturals

CONSTANTS
  Server, Url, Section,
  Owner,         (* the server each connection belongs to                   *)
  Holds,         (* the sections of each server; their keys repeat          *)
  Collection,    (* every one is in a section                               *)
  MaxLate,       (* the most abandoned requests that are still in flight    *)
  MaxEdits,      (* the most changes during a submission                    *)
  None           (* no server, URL, install URL                             *)

ASSUME ParamAssumption ==
  /\ Owner \in [Url -> Server]
  /\ Holds \in [Server -> SUBSET Section]
  /\ Collection \subseteq [section : Section, name : STRING]
  /\ {MaxLate, MaxEdits} \subseteq Nat
  /\ None \notin Server \cup Url

VARIABLES
  settings,      (* the form's values                                       *)
  sections,      (* usePMSSections: what is loaded, for what, is it known   *)
  collections,   (* usePMSCollections                                       *)
  loads,         (* their requests in flight                                *)
  submission,    (* onSubmit's locals                                       *)
  manifest,      (* manifestUrl                                             *)
  status,        (* copyStatus                                              *)
  copies,        (* what Copy URL is still copying: the URL that is "shown" *)
                 (* or an "old" one, or both                                *)
  clipboard,     (* does it hold the URL shown?                             *)
  opened,        (* history: what Stremio was opened with since the change  *)
  overtaken      (* history: Copy URL ended after its URL was withdrawn     *)

lists == <<sections, collections, loads>>
shown == <<manifest, status, copies, clipboard, opened, overtaken>>
vars == <<settings, lists, submission, shown>>

Blank == [server |-> None, url |-> None, sections |-> {}, include |-> FALSE, collections |-> {}]

Idle == [pc |-> "idle", copying |-> FALSE, edits |-> 0]

(* What the two effects depend on.                                          *)
SectionsFor(f) == <<f.server, f.url>>
CollectionsFor(f) == <<f.server, f.url, f.sections, f.include>>

Empty(for, loading) == [items |-> {}, for |-> for, loading |-> loading, known |-> FALSE]

Init ==
  /\ settings = Blank
  /\ sections = Empty(SectionsFor(Blank), FALSE)
  /\ collections = Empty(CollectionsFor(Blank), FALSE)
  /\ loads = {}
  /\ submission = Idle
  /\ manifest = None /\ status = "" /\ opened = None
  /\ copies = {} /\ clipboard = FALSE /\ overtaken = FALSE

-----------------------------------------------------------------------------
(* The backend's answers.                                                   *)

(* _authorized_server_url: plex.tv lists the connection for this server.    *)
Authorized(server, url) == url \in Url /\ Owner[url] = server

(* get_plex_sections and get_plex_collections; every call may also fail.    *)
PlexSections(server, url) == IF Authorized(server, url) THEN Holds[server] ELSE {}

PlexCollections(server, url, keys) ==
  {c \in Collection : Authorized(server, url) /\ c.section \in keys \cap Holds[server]}

(* create_session accepts what is authorized and what validate_collections  *)
(* lets pass.                                                               *)
Accepts(c) ==
  /\ Authorized(c.server, c.url)
  /\ \A collection \in c.collections : collection.section \in c.sections

-----------------------------------------------------------------------------
(* The effects run in the same event as the change: one that depends on     *)
(* what changed drops its list, abandons its request and sends another.     *)
Load(kind, for) == [kind |-> kind, for |-> for, active |-> TRUE]

MutKept(f) ==   (* Mutant: the effect's clean-up is missing                  *)
  loads

(* The requests in flight that the change to f leaves in use; the others    *)
(* will be answered to nobody.                                              *)
Kept(f) ==
  {[l EXCEPT !.active = @ /\ l.for = IF l.kind = "sections" THEN SectionsFor(f)
                                                            ELSE CollectionsFor(f)] : l \in loads}

Effects(f) ==
  LET newSections == SectionsFor(f) # SectionsFor(settings)
      newCollections == CollectionsFor(f) # CollectionsFor(settings)
      askSections == newSections /\ f.url # None
      askCollections == newCollections /\ f.include /\ f.url # None /\ f.sections # {}
  IN /\ sections' = IF newSections THEN Empty(SectionsFor(f), askSections) ELSE sections
     /\ collections' = IF newCollections THEN Empty(CollectionsFor(f), askCollections)
                                         ELSE collections
     /\ loads' = Kept(f)
                   \cup (IF askSections THEN {Load("sections", SectionsFor(f))} ELSE {})
                   \cup (IF askCollections THEN {Load("collections", CollectionsFor(f))} ELSE {})
     /\ Cardinality({l \in loads' : ~l.active}) <= MaxLate

(* setManifestUrl('') and setCopyStatus('')                                 *)
Withdraw ==
  /\ manifest' = None /\ status' = "" /\ opened' = None
  /\ copies' = {"old" : copy \in copies}
  /\ clipboard' = FALSE
  /\ UNCHANGED overtaken

(* form.watch: whatever changes withdraws the URL.                          *)
Change(f) ==
  /\ settings' = f
  /\ Effects(f)
  /\ submission.edits < MaxEdits
  /\ submission' = [submission EXCEPT !.edits = IF submission.pc = "idle" THEN 0 ELSE @ + 1]
  /\ Withdraw

MutChooseServer(s) ==   (* Mutant: the sections stay selected               *)
  /\ s # settings.server
  /\ Change([Blank EXCEPT !.server = s, !.sections = settings.sections])

(* serverName.tsx resets everything that belongs to the last server.        *)
ChooseServer(s) ==
  /\ s # settings.server
  /\ Change([Blank EXCEPT !.server = s])

ChooseUrl(u) ==
  /\ settings.server # None /\ Owner[u] = settings.server
  /\ u # settings.url
  /\ Change([settings EXCEPT !.url = u])

Toggled(set, x) == IF x \in set THEN set \ {x} ELSE set \cup {x}

(* sections.tsx and collections.tsx show a box for what is loaded.          *)
ToggleSection(s) ==
  /\ s \in sections.items
  /\ Change([settings EXCEPT !.sections = Toggled(@, s)])

ToggleInclude ==
  /\ settings.url # None
  /\ Change([settings EXCEPT !.include = ~@])

ToggleCollection(c) ==
  /\ settings.include /\ c \in collections.items
  /\ Change([settings EXCEPT !.collections = Toggled(@, c)])

MutFailed(for) ==   (* Mutant: the finally block is missing                 *)
  Empty(for, TRUE)

Failed(for) == Empty(for, FALSE)

(* getSections and getCollections end: with a list, or with an error or a   *)
(* timeout.  An effect that has been cleaned up does not listen.            *)
Answer(l) ==
  LET list == CASE l.kind = "sections" -> PlexSections(l.for[1], l.for[2])
                [] l.kind = "collections" -> PlexCollections(l.for[1], l.for[2], l.for[3])
      answers == {[items |-> list, for |-> l.for, loading |-> FALSE, known |-> TRUE],
                  Failed(l.for)}
  IN /\ l \in loads
     /\ loads' = loads \ {l}
     /\ sections' \in IF l.active /\ l.kind = "sections" THEN answers ELSE {sections}
     /\ collections' \in IF l.active /\ l.kind = "collections" THEN answers ELSE {collections}
     /\ UNCHANGED <<settings, submission, shown>>

-----------------------------------------------------------------------------
(* createManifestUrl: normalizedConfiguration.                              *)
Normalized ==
  [server |-> settings.server,
   url |-> settings.url,
   sections |-> settings.sections \cap sections.items,
   collections |->
     {c \in settings.collections \cap collections.items :
        settings.include /\ c.section \in settings.sections}]

(* The values and lists are those of the render in which the button was     *)
(* pressed; only microtasks lie between the click and the POST.             *)
Submit(copying) ==
  /\ submission.pc = "idle"
  /\ Withdraw
  /\ submission' = IF settings.url = None
                   THEN Idle      (* zod: "Please check the highlighted fields." *)
                   ELSE [pc |-> "creating", copying |-> copying, edits |-> 0,
                         chosen |-> settings, sent |-> Normalized,
                         known |-> [sections |-> sections.known,
                                    collections |-> collections.known]]
  /\ UNCHANGED <<settings, lists>>

MutGiveUp ==   (* Mutant: the finally block is missing                      *)
  UNCHANGED vars

(* Nothing is handed over: an error is shown.                               *)
GiveUp ==
  /\ submission' = Idle
  /\ UNCHANGED <<settings, lists, shown>>

Show(copied) ==
  /\ manifest' = submission.chosen
  /\ status' = IF copied THEN "copied" ELSE "ready"
  /\ clipboard' = copied
  /\ submission' = Idle
  /\ UNCHANGED <<settings, lists, copies, opened, overtaken>>

(* The URL is resolved: the clipboard gets it, or Stremio.                  *)
Deliver ==
  \/ /\ submission.copying
     /\ submission' = [submission EXCEPT !.pc = "copying"]
     /\ UNCHANGED <<settings, lists, shown>>
  \/ /\ submission.copying     (* no navigator.clipboard.write               *)
     /\ Show(FALSE)
  \/ /\ ~submission.copying
     /\ opened' = submission.chosen
     /\ submission' = Idle
     /\ UNCHANGED <<settings, lists, manifest, status, copies, clipboard, overtaken>>

MutChecked(Step) ==   (* Mutant: no comparison of revisions                  *)
  Step

(* checkConfiguration                                                       *)
Checked(Step) == IF submission.edits > 0 THEN GiveUp ELSE Step

(* createSession answers an id.                                             *)
SessionCreated ==
  /\ submission.pc = "creating"
  /\ Accepts(submission.sent)
  /\ Checked(Deliver)

(* It is refused, fails or times out: a legacy URL, where they are enabled. *)
SessionRefused ==
  /\ submission.pc = "creating"
  /\ GiveUp \/ Checked(Deliver)

(* copyText: the clipboard took the URL, or did not.                        *)
Copied(ok) ==
  /\ submission.pc = "copying"
  /\ Checked(Show(ok))

(* The Copy URL button, which may be pressed again before a copy ends.      *)
PressCopy ==
  /\ manifest # None
  /\ copies' = copies \cup {"shown"}
  /\ UNCHANGED <<settings, lists, submission, manifest, status, clipboard, opened, overtaken>>

(* Its copyText ends, and does not look whether its URL is still the one    *)
(* that is shown.  Others of the same URL may still be under way.           *)
ButtonCopied(copy, ok) ==
  /\ copy \in copies
  /\ status' = IF ok THEN "copied" ELSE "select"
  /\ clipboard' = IF ok THEN copy = "shown" ELSE clipboard
  /\ overtaken' = (overtaken \/ copy = "old")
  /\ copies' \in {copies, copies \ {copy}}
  /\ UNCHANGED <<settings, lists, submission, manifest, opened>>

Edit ==
  \/ \E s \in Server : ChooseServer(s)
  \/ \E u \in Url : ChooseUrl(u)
  \/ \E s \in Section : ToggleSection(s)
  \/ ToggleInclude
  \/ \E c \in Collection : ToggleCollection(c)

SessionAnswers == SessionCreated \/ SessionRefused

Next ==
  \/ Edit
  \/ \E l \in loads : Answer(l)
  \/ \E copying \in BOOLEAN : Submit(copying)
  \/ SessionAnswers
  \/ \E ok \in BOOLEAN : Copied(ok)
  \/ \E copy \in copies, ok \in BOOLEAN : ButtonCopied(copy, ok)
  \/ PressCopy

Spec == Init /\ [][Next]_vars

(* axios ends POST /sessions within 15 s and a load within 25 s.  Nothing   *)
(* is assumed of the clipboard, which may ask the user first.               *)
Requests ==
  {Load("sections", <<Owner[u], u>>) : u \in Url}
    \cup UNION {{Load("collections", <<Owner[u], u, keys, TRUE>>) :
                   keys \in SUBSET Holds[Owner[u]] \ {{}}} : u \in Url}

FairSpec ==
  /\ Spec
  /\ WF_vars(SessionAnswers)
  /\ \A l \in Requests : WF_vars(Answer(l))

-----------------------------------------------------------------------------
Active(kind) == {l \in loads : l.kind = kind /\ l.active}

(* The values fit together, and a list is loading exactly while one request *)
(* for it, of the current settings, is in use.                              *)
TypeOK ==
  /\ settings.server \in Server \cup {None}
  /\ settings.url # None => Authorized(settings.server, settings.url)
  /\ settings.sections \subseteq Section
  /\ settings.collections \subseteq Collection
  /\ sections.items \subseteq Section
  /\ collections.items \subseteq Collection
  /\ Active("sections") = IF sections.loading THEN {Load("sections", SectionsFor(settings))} ELSE {}
  /\ Active("collections") = IF collections.loading
                             THEN {Load("collections", CollectionsFor(settings))} ELSE {}
  /\ submission.pc \in {"idle", "creating", "copying"}
  /\ status \in {"", "copied", "ready", "select"}
  /\ copies \subseteq {"shown", "old"}

(* "Discard pending install/copy results when configuration changes, so a   *)
(* delayed response cannot silently install or copy the previous settings." *)
(* (CHANGELOG.md:8): what is shown, or opened in Stremio, is of the         *)
(* settings on the screen; and what the form says it copied is what the     *)
(* clipboard holds, as long as Copy URL was never slower than a change.     *)
OnlyCurrentIsHandedOver ==
  /\ {manifest, opened} \subseteq {settings, None}
  /\ manifest # None /\ status = "copied" /\ ~overtaken => clipboard

(* Answers for another server, URL or selection never fill the lists, even  *)
(* when they come last.  All servers number their libraries alike, so       *)
(* nothing else would tell them apart.                                      *)
LateAnswersDropped ==
  /\ sections.for = SectionsFor(settings)
  /\ collections.for = CollectionsFor(settings)
  /\ sections.items \subseteq PlexSections(settings.server, settings.url)

(* What is sent for an install URL is what was chosen, and the backend      *)
(* accepts it, if the libraries were on the screen at the click: all        *)
(* sections chosen, and all collections if they had been loaded too.        *)
ChosenIsSent ==
  submission.pc # "idle" /\ submission.known.sections =>
    LET chosen == submission.chosen
        sent == submission.sent
        wanted == {c \in chosen.collections : chosen.include /\ c.section \in chosen.sections}
    IN /\ sent.sections = chosen.sections
       /\ submission.known.collections => sent.collections = wanted
       /\ Accepts(sent)

(* The form never waits for the server without end: a submission gives the  *)
(* buttons back, or hands the URL to the clipboard, which may take as long  *)
(* as it likes; and neither list goes on loading, unless what it is loaded  *)
(* for changes again and again.                                             *)
NothingHangs ==
  /\ submission.pc = "creating" ~> submission.pc # "creating"
  /\ []<>~sections.loading \/ []<><<sections'.for # sections.for>>_sections
  /\ []<>~collections.loading \/ []<><<collections'.for # collections.for>>_collections
=============================================================================
