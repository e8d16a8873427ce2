---------------------------- MODULE BrowserApp ----------------------------
(***************************************************************************)
(* The document browser: one page that holds a document, shows it in three *)
(* panels (the hierarchy, editors of a node's keys, a display of the node) *)
(* and keeps the address bar in step.  JavaScript runs one event handler   *)
(* at a time; an action is one handler, up to its first await, or what     *)
(* follows an await once its promise is settled.                           *)
(*                                                                         *)
(* A document is a model value: what matters of it is which one it is, its *)
(* paths, whether the page can print it, whether canonicalStringify can    *)
(* serialize it, and whether it fits a URL.                                *)
(***************************************************************************)
EXTENDS Naturals, FiniteSets

CONSTANTS
  Doc,           (* contents a document may have *)
  Empty,         (* the content of "{}" *)
  Unserializable, (* contents that parse but canonicalStringify throws on, *)
                 (* such as a lone surrogate in a string or a name         *)
  Unrenderable,  (* those of them that prettyJson throws on too: it prints *)
                 (* names with JSON.stringify, which escapes surrogates    *)
  TooLarge,      (* contents whose fragment exceeds URL_DOC_LIMIT *)
  Path, Root,    (* hierarchy paths *)
  ArrayPath,     (* those that are arrays; any other node is a group *)
  Paths,         (* the paths of each content *)
  Garbled,       (* a text that is not the JSON text of an object *)
  Unreachable,   (* a location or payload that cannot be fetched or inflated *)
  NoDoc,
  Current,       (* the editors write into the document the page holds *)
  Inputs,        (* the inputs the user makes *)
  MaxInputs      (* bound: how many *)

ASSUME DocumentsAssumption ==
  /\ Unrenderable \subseteq Unserializable /\ Unserializable \subseteq Doc
  /\ Empty \in Doc \ Unserializable /\ TooLarge \subseteq Doc
  /\ {NoDoc, Current, Garbled, Unreachable} \cap Doc = {} /\ NoDoc # Current

ASSUME PathsAssumption ==
  Root \in Path /\ ArrayPath \subseteq Path /\ Paths \in [Doc -> SUBSET Path]

ASSUME InputsAssumption == MaxInputs \in Nat

VARIABLES
  doc,           (* the document, NoDoc before the first load *)
  editors,       (* Current, NoDoc (none shown), or the content of an       *)
                 (* earlier document object that the editors still write to *)
  dag, selected, (* the paths drawn as the hierarchy, the path selected *)
  display, displayEpoch,
  cache,         (* arrayCache: path to the snapshot its read was given *)
  reads,         (* readArray promises that displays wait for *)
  url, shareable, timer, syncs, syncEpoch,
  loads,         (* texts on their way: files, fetches, decompressions *)
  inputs

panels  == <<editors, dag, selected, display, displayEpoch, cache, reads>>
address == <<url, shareable, timer, syncs, syncEpoch>>
vars    == <<doc, panels, address, loads, inputs>>

Text == Doc \cup {Garbled, Unreachable}
Fragment == [kind : {"doc", "url"}, of : Text] \cup [kind : {"empty"}, of : {Empty}]
EmptyFragment == [kind |-> "empty", of |-> Empty]
NoReads == [p \in Path |-> NoDoc]

TypeOK ==
  /\ doc \in Doc \cup {NoDoc} /\ editors \in Doc \cup {NoDoc, Current}
  /\ dag \subseteq Path /\ selected \in Path
  /\ display \in [kind : {"hint", "node", "loading", "array", "error"},
                  path : Path, of : Doc \cup {NoDoc}]
  /\ cache \in [Path -> Doc \cup {NoDoc}]
  /\ displayEpoch \in Nat
  /\ reads \subseteq [epoch : 0 .. displayEpoch, path : ArrayPath, of : Doc]
  /\ url \in Fragment /\ shareable \in BOOLEAN /\ timer \in BOOLEAN
  /\ syncEpoch \in Nat
  /\ syncs \subseteq [epoch : 0 .. syncEpoch, of : Doc \ Unserializable]
  /\ loads \subseteq [via : {"file", "fromUrl", "fragment"}, text : Text, nr : 0 .. MaxInputs]
  /\ inputs \in 0 .. MaxInputs

-----------------------------------------------------------------------------
(* Rendering.  A MemoryBacking copies the members it is given, so a read   *)
(* works on the document as it is when readArray is called.                *)

(* Mutant: a cached read is used but nobody waits for it. *)
RenderDisplayUnwatched(d, path, cached) ==
  /\ displayEpoch' = displayEpoch + 1
  /\ LET isArray == path \in Paths[d] \cap ArrayPath
         snapshot == IF isArray /\ cached[path] = NoDoc THEN d ELSE cached[path]
     IN  /\ display' = [kind |-> IF isArray THEN "loading" ELSE
                                 IF path \in Paths[d] THEN "node" ELSE "hint",
                        path |-> path, of |-> d]
         /\ cache' = [cached EXCEPT ![path] = snapshot]
         /\ reads' = IF isArray /\ cached[path] = NoDoc
                     THEN reads \cup {[epoch |-> displayEpoch + 1, path |-> path, of |-> d]}
                     ELSE reads

RenderDisplay(d, path, cached) ==
  /\ displayEpoch' = displayEpoch + 1
  /\ IF path \in Paths[d] \cap ArrayPath
     THEN LET snapshot == IF cached[path] = NoDoc THEN d ELSE cached[path]
          IN  /\ display' = [kind |-> "loading", path |-> path, of |-> d]
              /\ cache' = [cached EXCEPT ![path] = snapshot]
              /\ reads' = reads \cup {[epoch |-> displayEpoch + 1,
                                       path |-> path, of |-> snapshot]}
     ELSE /\ display' = [kind |-> IF path \in Paths[d] THEN "node" ELSE "hint",
                         path |-> path, of |-> d]
          /\ cache' = cached
          /\ UNCHANGED reads

(* The editors are left as they are when an edit of theirs is the reason. *)
RenderSelection(d, path, cached, editorsAfter) ==
  /\ selected' = path
  /\ dag' = Paths[d]
  /\ editors' = editorsAfter
  /\ RenderDisplay(d, path, cached)

(* Mutant: the JSON panel is not rendered again. *)
RefreshKeepingEditors(d, path, editorsAfter, detached) ==
  LET kept == IF path \in Paths[d] THEN path ELSE Root
  IN  IF d \in Unrenderable
      THEN selected' = kept /\ cache' = NoReads /\ editors' = detached
           /\ UNCHANGED <<dag, display, displayEpoch, reads>>
      ELSE RenderSelection(d, kept, NoReads, detached)

(* updateStatus prints the whole document: when that throws, nothing is    *)
(* rendered and what called refresh is not resumed.                        *)
Refresh(d, path, editorsAfter, detached) ==
  LET kept == IF path \in Paths[d] THEN path ELSE Root
  IN  IF d \in Unrenderable
      THEN /\ selected' = kept
           /\ cache' = NoReads
           /\ editors' = detached
           /\ UNCHANGED <<dag, display, displayEpoch, reads>>
      ELSE RenderSelection(d, kept, NoReads, editorsAfter)

-----------------------------------------------------------------------------
(* Loading a document. *)

(* Editors that no rendering replaces keep writing to the object they have. *)
Detached == IF editors = Current THEN doc ELSE editors

Load(d) ==
  /\ doc' = d
  /\ Refresh(d, Root, Current, Detached)

(* A load that is not followed by anything else: the text is no document,  *)
(* or refresh threw.                                                       *)
LoadText(text, urlAfter, timerAfter) ==
  \/ /\ text \in Doc \ Unrenderable
     /\ Load(text)
     /\ url' = urlAfter /\ timer' = timerAfter
     /\ UNCHANGED <<shareable, syncs, syncEpoch>>
  \/ text \in Unrenderable /\ Load(text) /\ UNCHANGED address
  \/ text \in {Garbled, Unreachable} /\ UNCHANGED <<doc, panels, address>>

Input(kind) ==
  /\ kind \in Inputs
  /\ inputs < MaxInputs
  /\ inputs' = inputs + 1

(* The paste dialog and the demo button. *)
Paste(text) ==
  /\ Input("paste")
  /\ LoadText(text, url, TRUE)
  /\ UNCHANGED loads

(* Opening or dropping a file, and the prompt for a URL, read their text   *)
(* asynchronously.                                                         *)
Request(via, text) ==
  /\ Input(via)
  /\ loads' = loads \cup {[via |-> via, text |-> text, nr |-> inputs]}
  /\ UNCHANGED <<doc, panels, address>>

(* The user follows a link or edits the address bar: hashchange. *)
Navigate(fragment) ==
  /\ Input("navigate")
  /\ url' = fragment
  /\ UNCHANGED <<shareable, timer, syncs, syncEpoch>>
  /\ IF fragment = EmptyFragment
     THEN Load(Empty) /\ UNCHANGED loads
     ELSE /\ loads' = loads \cup {[via |-> "fragment", text |-> fragment.of, nr |-> inputs]}
          /\ UNCHANGED <<doc, panels>>

(* initFromLocation falls through to the empty document when anything in   *)
(* its try throws, the rendering of what it has loaded included.           *)
LoadDone(l) ==
  /\ loads' = loads \ {l}
  /\ UNCHANGED inputs
  /\ CASE l.via = "file" -> LoadText(l.text, url, TRUE)
       [] l.via = "fromUrl" -> LoadText(l.text, [kind |-> "url", of |-> l.text], timer)
       [] l.via = "fragment" ->
            IF l.text \in Unrenderable \cup {Unreachable}
            THEN Load(Empty) /\ UNCHANGED address
            ELSE LoadText(l.text, url, timer)

-----------------------------------------------------------------------------
(* Selecting, editing, displaying. *)

Select(path) ==
  /\ Input("select")
  /\ doc # NoDoc
  /\ path \in dag
  /\ RenderSelection(doc, path, cache, IF path \in Paths[doc] THEN Current ELSE NoDoc)
  /\ UNCHANGED <<doc, address, loads>>

(* An edit replaces the value of a key the document has with a canonical   *)
(* one: its paths stay, and it can lose a surrogate but never gain one.    *)
EditsTo(d) == {c \in Doc : /\ c # d /\ Paths[c] = Paths[d]
                           /\ c \in Unserializable => d \in Unserializable
                           /\ c \in Unrenderable => d \in Unrenderable}

(* The editors' Apply: the document changes first, then everything is      *)
(* refreshed; an error of refresh is caught and shown as the edit's.       *)
Apply(c) ==
  /\ Input("edit")
  /\ editors # NoDoc
  /\ UNCHANGED loads
  /\ \/ /\ editors = Current /\ doc # NoDoc /\ c \in EditsTo(doc)
        /\ doc' = c
        /\ Refresh(c, selected, Current, Current)
     \/ /\ editors # Current /\ c \in EditsTo(editors)
        /\ UNCHANGED doc
        /\ Refresh(doc, selected, c, c)
  /\ timer' = (timer \/ doc' \notin Unrenderable)
  /\ UNCHANGED <<url, shareable, syncs, syncEpoch>>

(* Mutant: whatever read ends last is displayed. *)
ReadDoneUnguarded(r) ==
  /\ reads' = reads \ {r}
  /\ \E kind \in {"array", "error"} : display' = [kind |-> kind, path |-> r.path, of |-> r.of]
  /\ UNCHANGED <<doc, editors, dag, selected, displayEpoch, cache, address, loads, inputs>>

(* A read ends, well or with an error; one for an earlier display is dropped. *)
ReadDone(r) ==
  /\ reads' = reads \ {r}
  /\ IF r.epoch = displayEpoch
     THEN \E kind \in {"array", "error"} :
            display' = [kind |-> kind, path |-> r.path, of |-> r.of]
     ELSE UNCHANGED display
  /\ UNCHANGED <<doc, editors, dag, selected, displayEpoch, cache, address, loads, inputs>>

-----------------------------------------------------------------------------
(* The address bar. *)

(* Mutant: a document that cannot be serialized is compressed all the same. *)
TimerFiresUnchecked ==
  /\ timer
  /\ timer' = FALSE
  /\ syncEpoch' = syncEpoch + 1
  /\ syncs' = syncs \cup {[epoch |-> syncEpoch + 1, of |-> doc]}
  /\ UNCHANGED <<doc, panels, url, shareable, loads, inputs>>

(* 250 ms after the last change.  The epoch is taken before the document   *)
(* is serialized, which may throw, also for one that is on the page: then  *)
(* compressions under way are superseded and none replaces them.           *)
TimerFires ==
  /\ timer
  /\ timer' = FALSE
  /\ syncEpoch' = IF doc = NoDoc THEN syncEpoch ELSE syncEpoch + 1
  /\ syncs' = IF doc \in Unserializable \cup {NoDoc} THEN syncs
              ELSE syncs \cup {[epoch |-> syncEpoch + 1, of |-> doc]}
  /\ UNCHANGED <<doc, panels, url, shareable, loads, inputs>>

FragmentForDocument(d) ==
  IF d \in TooLarge THEN EmptyFragment ELSE [kind |-> "doc", of |-> d]

(* Mutant: a compression that a newer one has superseded is not dropped. *)
SyncDoneUnguarded(s) ==
  /\ syncs' = syncs \ {s}
  /\ url' = FragmentForDocument(s.of)
  /\ shareable' = (s.of \notin TooLarge)
  /\ UNCHANGED <<doc, panels, timer, syncEpoch, loads, inputs>>

SyncDone(s) ==
  /\ syncs' = syncs \ {s}
  /\ IF s.epoch = syncEpoch
     THEN /\ url' = FragmentForDocument(s.of)
          /\ shareable' = (s.of \notin TooLarge)
     ELSE UNCHANGED <<url, shareable>>
  /\ UNCHANGED <<doc, panels, timer, syncEpoch, loads, inputs>>

-----------------------------------------------------------------------------
(* The script's last line calls initFromLocation; an empty fragment has    *)
(* loaded the empty document when it returns.                              *)
Init ==
  /\ url \in {f \in Fragment : f = EmptyFragment \/ "navigate" \in Inputs}
  /\ LET bare == url = EmptyFragment
     IN  /\ doc = IF bare THEN Empty ELSE NoDoc
         /\ editors = IF bare THEN Current ELSE NoDoc
         /\ dag = IF bare THEN Paths[Empty] ELSE {}
         /\ display = [kind |-> IF bare THEN "node" ELSE "hint", path |-> Root,
                       of |-> IF bare THEN Empty ELSE NoDoc]
         /\ loads = IF bare THEN {}
                    ELSE {[via |-> "fragment", text |-> url.of, nr |-> MaxInputs]}
  /\ selected = Root /\ displayEpoch = 0 /\ cache = NoReads /\ reads = {}
  /\ shareable = TRUE /\ timer = FALSE /\ syncs = {} /\ syncEpoch = 0
  /\ inputs = 0

User ==
  \/ \E text \in Text \ {Unreachable} : Paste(text)
  \/ \E via \in {"file", "fromUrl"}, text \in Text : Request(via, text)
  \/ \E fragment \in Fragment : Navigate(fragment)
  \/ \E path \in Path : Select(path)
  \/ \E c \in Doc : Apply(c)

Settle ==
  \/ \E l \in loads : LoadDone(l)
  \/ \E r \in reads : ReadDone(r)
  \/ \E s \in syncs : SyncDone(s)
  \/ TimerFires

Next == User \/ Settle

(* A timer fires and a promise settles; the user need not do anything. *)
Fairness ==
  /\ WF_vars(\E l \in loads : LoadDone(l))
  /\ WF_vars(\E r \in reads : ReadDone(r))
  /\ WF_vars(\E s \in syncs : SyncDone(s))
  /\ WF_vars(TimerFires)

Spec == Init /\ [][Next]_vars /\ Fairness

-----------------------------------------------------------------------------
(* What is displayed is the selected node of the document the page holds:  *)
(* no read that an edit, a load or a selection has overtaken shows through *)
(* the epochs and the cache of renderDisplay and readArray.                *)
DisplayFresh ==
  display.kind \in {"node", "array", "error"} /\ doc \notin Unrenderable =>
    display.of = doc /\ display.path = selected

(* Only a document the page cannot print leaves panels of another document *)
(* on it after loadDocumentText: otherwise the editors write into the      *)
(* document that is downloaded and shared, and the hierarchy is its own.   *)
PanelsShowDocument ==
  doc \notin Unrenderable \cup {NoDoc} => editors = Current /\ dag = Paths[doc]

(* A display that says it is loading comes to show something.              *)
EveryDisplaySettles == display.kind = "loading" ~> display.kind # "loading"

(* When the user stops, the address bar comes to hold the document, or     *)
(* nothing when it is too large, and the status line says which: however   *)
(* timers and compressions overlap.  Of a document that cannot be          *)
(* serialized, if the page shows it or not, the code promises nothing: the *)
(* timer throws and the address stays that of an earlier one.              *)
AddressCatchesUp ==
  <>[](doc \notin Unserializable =>
         \/ url = FragmentForDocument(doc) /\ shareable = (doc \notin TooLarge)
         \/ doc = Empty /\ url = EmptyFragment)

(* docs/browser.md: "the entire zarr-inline document lives in the URL      *)
(* fragment, so links are shareable".  With nothing left to settle, a link *)
(* that carries a document the page can show carries the one it shows.     *)
LinkCarriesDocument ==
  ~timer /\ syncs = {} /\ loads = {} /\ url.kind = "doc" =>
    url.of = doc \/ url.of \notin Doc \ Unrenderable

=============================================================================
