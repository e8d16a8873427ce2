--------------------------- MODULE BrowserProofs ---------------------------
(***************************************************************************)
(* Proofs about the document browser.  The page: for every set of          *)
(* documents and paths, any inputs and any number of them, with loads,     *)
(* reads, timers and compressions settling in every order.  The viewer:    *)
(* for arrays of every rank and extent and any sequence of choices.  The   *)
(* tree: for every document, in whatever order the passes meet its keys.   *)
(***************************************************************************)
EXTENDS BrowserApp, ViewerRoles, Hierarchy, FiniteSetTheorems, SequenceTheorems,
        WellFoundedInduction, TLAPS

(* A cached snapshot is of the document the page holds. *)
CacheIsCurrent == \A p \in Path : cache[p] \in {NoDoc, doc}

(* The display, and any read it waits for, are of the selected node of the *)
(* document the page holds.  When that cannot be printed the panels are    *)
(* those of an earlier one.                                                *)
Awaited(r) == r.epoch = displayEpoch => r.of = doc /\ r.path = selected

DisplayIsCurrent ==
  doc \notin Unrenderable =>
    /\ display.of = doc /\ display.path = selected
    /\ \A r \in reads : Awaited(r)

(* Before the first document there are no editors. *)
EditsNothing == doc = NoDoc => editors = NoDoc

Inv == TypeOK /\ CacheIsCurrent /\ DisplayIsCurrent /\ PanelsShowDocument /\ EditsNothing

-----------------------------------------------------------------------------
(* The page shows a document of its own: every panel is rendered anew. *)

(* The variables of the panels, whoever changes them. *)
PanelsOK ==
  /\ editors \in Doc \cup {NoDoc, Current}
  /\ dag \subseteq Path /\ selected \in Path
  /\ display \in [kind : {"hint", "node", "loading", "array", "error"},
                  path : Path, of : Doc \cup {NoDoc}]
  /\ cache \in [Path -> Doc \cup {NoDoc}]
  /\ displayEpoch \in Nat
  /\ reads \subseteq [epoch : 0 .. displayEpoch, path : ArrayPath, of : Doc]

PanelsInv ==
  doc \in Doc \cup {NoDoc} /\ PanelsOK /\ CacheIsCurrent /\ DisplayIsCurrent
  /\ PanelsShowDocument /\ EditsNothing

(* A display of a node of a document, when nothing else is in the cache:   *)
(* the reads it waits for are of that document and node.                   *)
LEMMA RenderDisplayKeeps ==
  ASSUME PanelsOK, NEW d \in Doc, NEW path \in Path, NEW cached \in [Path -> {NoDoc, d}],
         RenderDisplay(d, path, cached)
  PROVE  /\ display' \in [kind : {"hint", "node", "loading", "array", "error"},
                          path : Path, of : Doc \cup {NoDoc}]
         /\ display'.of = d /\ display'.path = path
         /\ cache' \in [Path -> {NoDoc, d}]
         /\ displayEpoch' \in Nat
         /\ reads' \subseteq [epoch : 0 .. displayEpoch', path : ArrayPath, of : Doc]
         /\ \A r \in reads' : r.epoch = displayEpoch' => r.of = d /\ r.path = path
<1>1. displayEpoch \in Nat /\ displayEpoch' = displayEpoch + 1
  BY DEF PanelsOK, RenderDisplay
<1>2. \A r \in reads : /\ r \in [epoch : 0 .. displayEpoch', path : ArrayPath, of : Doc]
                       /\ r.epoch # displayEpoch'
  BY <1>1 DEF PanelsOK
<1> DEFINE snapshot == IF cached[path] = NoDoc THEN d ELSE cached[path]
           read     == [epoch |-> displayEpoch + 1, path |-> path, of |-> snapshot]
<1>3. snapshot = d
  OBVIOUS
<1> HIDE DEF snapshot
<1>4. CASE path \in Paths[d] \cap ArrayPath
  <2>1. /\ display' = [kind |-> "loading", path |-> path, of |-> d]
        /\ cache' = [cached EXCEPT ![path] = snapshot]
        /\ reads' = reads \cup {read}
    BY <1>4 DEF RenderDisplay, snapshot
  <2>2. /\ read \in [epoch : 0 .. displayEpoch', path : ArrayPath, of : Doc]
        /\ read.of = d /\ read.path = path
    BY <1>1, <1>3, <1>4
  <2>3. cache' \in [Path -> {NoDoc, d}]
    BY <1>3, <2>1
  <2> HIDE DEF read
  <2>4. QED
    BY <1>1, <1>2, <2>1, <2>2, <2>3
<1>5. CASE path \notin Paths[d] \cap ArrayPath
  <2>1. /\ display' = [kind |-> IF path \in Paths[d] THEN "node" ELSE "hint",
                       path |-> path, of |-> d]
        /\ cache' = cached /\ reads' = reads
    BY <1>5 DEF RenderDisplay
  <2>2. QED
    BY <1>1, <1>2, <2>1
<1>6. QED
  BY <1>4, <1>5

(* renderSelection, for the document the page will hold. *)
LEMMA RenderSelectionKeeps ==
  ASSUME PanelsOK, NEW path \in Path, doc' \in Doc, NEW cached \in [Path -> {NoDoc, doc'}],
         NEW after \in Doc \cup {NoDoc, Current},
         doc' \notin Unrenderable => after = Current,
         RenderSelection(doc', path, cached, after)
  PROVE  PanelsInv'
<1>1. /\ selected' = path /\ dag' = Paths[doc'] /\ editors' = after
      /\ RenderDisplay(doc', path, cached)
  BY DEF RenderSelection
<1>2. /\ display' \in [kind : {"hint", "node", "loading", "array", "error"},
                       path : Path, of : Doc \cup {NoDoc}]
      /\ display'.of = doc' /\ display'.path = path
      /\ cache' \in [Path -> {NoDoc, doc'}]
      /\ displayEpoch' \in Nat
      /\ reads' \subseteq [epoch : 0 .. displayEpoch', path : ArrayPath, of : Doc]
      /\ \A r \in reads' : r.epoch = displayEpoch' => r.of = doc' /\ r.path = path
  BY <1>1, RenderDisplayKeeps
<1>3. PanelsOK'
  BY <1>1, <1>2, PathsAssumption DEF PanelsOK
<1>4. CacheIsCurrent'
  BY <1>2 DEF CacheIsCurrent
<1>5. DisplayIsCurrent'
  BY <1>1, <1>2 DEF DisplayIsCurrent, Awaited
<1>6. PanelsShowDocument' /\ EditsNothing'
  BY <1>1, DocumentsAssumption DEF PanelsShowDocument, EditsNothing
<1>7. QED
  BY <1>3, <1>4, <1>5, <1>6 DEF PanelsInv

(* refresh, after the page has been given a document. *)
LEMMA RefreshKeeps ==
  ASSUME PanelsOK, doc' \in Doc, NEW path \in Path,
         NEW after \in Doc \cup {NoDoc, Current}, NEW detached \in Doc \cup {NoDoc, Current},
         doc' \notin Unrenderable => after = Current,
         Refresh(doc', path, after, detached)
  PROVE  PanelsInv'
<1> DEFINE kept == IF path \in Paths[doc'] THEN path ELSE Root
<1>1. kept \in Path
  BY PathsAssumption
<1>2. NoReads \in [Path -> {NoDoc, doc'}] /\ \A p \in Path : NoReads[p] = NoDoc
  BY DEF NoReads
<1>3. CASE doc' \in Unrenderable
  <2>1. /\ selected' = kept /\ cache' = NoReads /\ editors' = detached
        /\ UNCHANGED <<dag, display, displayEpoch, reads>>
    BY <1>3 DEF Refresh
  <2> HIDE DEF kept
  <2>2. PanelsOK'
    BY <1>1, <1>2, <2>1 DEF PanelsOK
  <2>3. QED
    BY <1>2, <1>3, <2>1, <2>2, DocumentsAssumption
       DEF PanelsInv, CacheIsCurrent, DisplayIsCurrent, PanelsShowDocument, EditsNothing
<1>4. CASE doc' \notin Unrenderable
  <2>1. RenderSelection(doc', kept, NoReads, after)
    BY <1>4 DEF Refresh
  <2> HIDE DEF kept
  <2>2. QED
    BY <1>1, <1>2, <2>1, RenderSelectionKeeps
<1>5. QED
  BY <1>3, <1>4
-----------------------------------------------------------------------------
(* The rest of the page: the address bar, what is on its way, the inputs. *)

RestOK ==
  /\ url \in Fragment /\ shareable \in BOOLEAN /\ timer \in BOOLEAN
  /\ syncEpoch \in Nat
  /\ syncs \subseteq [epoch : 0 .. syncEpoch, of : Doc \ Unserializable]
  /\ loads \subseteq [via : {"file", "fromUrl", "fragment"}, text : Text, nr : 0 .. MaxInputs]
  /\ inputs \in 0 .. MaxInputs

(* The invariant falls into the panels and the rest. *)
LEMMA Parts ==
  /\ Inv <=> PanelsInv /\ RestOK
  /\ Inv' <=> PanelsInv' /\ RestOK'
<1>1. Inv <=> PanelsInv /\ RestOK
  BY DEF Inv, TypeOK, PanelsInv, PanelsOK, RestOK
<1>2. Inv' <=> PanelsInv' /\ RestOK'
  BY DEF Inv, TypeOK, PanelsInv, PanelsOK, RestOK
<1>3. QED
  BY <1>1, <1>2

(* Nothing about the panels changes while they and the document do not. *)
LEMMA PanelsUntouched ==
  ASSUME PanelsInv, UNCHANGED <<doc, panels>>
  PROVE  PanelsInv'
BY DEF PanelsInv, PanelsOK, CacheIsCurrent, DisplayIsCurrent, Awaited, PanelsShowDocument,
       EditsNothing, panels

(* loadDocumentText once the text is parsed. *)
LEMMA LoadKeeps ==
  ASSUME PanelsInv, NEW d \in Doc, Load(d)
  PROVE  PanelsInv'
<1>1. doc' = d /\ Refresh(doc', Root, Current, Detached)
  BY DEF Load
<1>2. Detached \in Doc \cup {NoDoc, Current}
  BY DEF Detached, PanelsInv, PanelsOK
<1>3. PanelsOK /\ Root \in Path
  BY PathsAssumption DEF PanelsInv
<1>4. QED
  BY <1>1, <1>2, <1>3, RefreshKeeps

(* Loading a text makes a document and panels that show it, or keeps both. *)
LEMMA LoadTextKeeps ==
  ASSUME Inv, NEW text \in Text, NEW urlAfter \in Fragment, NEW timerAfter \in BOOLEAN,
         LoadText(text, urlAfter, timerAfter)
  PROVE  /\ PanelsInv' /\ url' \in Fragment /\ timer' \in BOOLEAN
         /\ UNCHANGED <<shareable, syncs, syncEpoch>>
<1>1. PanelsInv /\ RestOK
  BY Parts
<1>2. CASE /\ text \in Doc \ Unrenderable
           /\ Load(text)
           /\ url' = urlAfter /\ timer' = timerAfter
           /\ UNCHANGED <<shareable, syncs, syncEpoch>>
  BY <1>1, <1>2, LoadKeeps
<1>3. CASE text \in Unrenderable /\ Load(text) /\ UNCHANGED address
  BY <1>1, <1>3, LoadKeeps, DocumentsAssumption DEF address, RestOK
<1>4. CASE text \in {Garbled, Unreachable} /\ UNCHANGED <<doc, panels, address>>
  BY <1>1, <1>4, PanelsUntouched DEF address, RestOK
<1>5. QED
  BY <1>2, <1>3, <1>4 DEF LoadText

(* An input, counted. *)
LEMMA InputCounts ==
  ASSUME RestOK, NEW kind, Input(kind)
  PROVE  inputs \in 0 .. MaxInputs /\ inputs' \in 0 .. MaxInputs
BY InputsAssumption DEF RestOK, Input

(* A paste loads its text. *)
LEMMA PasteInv ==
  ASSUME Inv, NEW text \in Text, Paste(text)
  PROVE  Inv'
<1>1. RestOK /\ PanelsInv
  BY Parts
<1>2. /\ PanelsInv' /\ url' \in Fragment /\ timer' \in BOOLEAN
      /\ UNCHANGED <<shareable, syncs, syncEpoch>>
  BY <1>1, LoadTextKeeps DEF Paste, RestOK
<1>3. inputs' \in 0 .. MaxInputs /\ loads' = loads
  BY <1>1, InputCounts DEF Paste
<1>4. QED
  BY <1>1, <1>2, <1>3, Parts DEF RestOK

(* A request waits among the loads, and shows nothing yet. *)
LEMMA RequestInv ==
  ASSUME Inv, NEW via \in {"file", "fromUrl"}, NEW text \in Text, Request(via, text)
  PROVE  Inv'
<1>1. RestOK /\ PanelsInv
  BY Parts
<1>2. inputs \in 0 .. MaxInputs /\ inputs' \in 0 .. MaxInputs
  BY <1>1, InputCounts DEF Request
<1>3. /\ loads' = loads \cup {[via |-> via, text |-> text, nr |-> inputs]}
      /\ UNCHANGED <<doc, panels, address>>
  BY DEF Request
<1>4. PanelsInv'
  BY <1>1, <1>3, PanelsUntouched
<1>5. QED
  BY <1>1, <1>2, <1>3, <1>4, Parts DEF RestOK, address

(* Going to a fragment loads what it carries, or nothing. *)
LEMMA NavigateInv ==
  ASSUME Inv, NEW fragment \in Fragment, Navigate(fragment)
  PROVE  Inv'
<1>1. RestOK /\ PanelsInv
  BY Parts
<1>2. inputs \in 0 .. MaxInputs /\ inputs' \in 0 .. MaxInputs
  BY <1>1, InputCounts DEF Navigate
<1>3. url' = fragment /\ UNCHANGED <<shareable, timer, syncs, syncEpoch>>
  BY DEF Navigate
<1>4. CASE fragment = EmptyFragment
  <2>1. Load(Empty) /\ loads' = loads
    BY <1>4 DEF Navigate
  <2>2. PanelsInv'
    BY <1>1, <2>1, LoadKeeps, DocumentsAssumption
  <2>3. QED
    BY <1>1, <1>2, <1>3, <2>1, <2>2, Parts DEF RestOK
<1>5. CASE fragment # EmptyFragment
  <2>1. /\ loads' = loads \cup {[via |-> "fragment", text |-> fragment.of, nr |-> inputs]}
        /\ UNCHANGED <<doc, panels>>
    BY <1>5 DEF Navigate
  <2>2. fragment.of \in Text
    BY DocumentsAssumption DEF Fragment, Text
  <2>3. PanelsInv'
    BY <1>1, <2>1, PanelsUntouched
  <2>4. QED
    BY <1>1, <1>2, <1>3, <2>1, <2>2, <2>3, Parts DEF RestOK
<1>6. QED
  BY <1>4, <1>5

(* A load that ends loads its text, the empty document or nothing. *)
LEMMA LoadDoneInv ==
  ASSUME Inv, NEW l \in loads, LoadDone(l)
  PROVE  Inv'
<1>1. RestOK /\ PanelsInv
  BY Parts
<1>2. /\ l.via \in {"file", "fromUrl", "fragment"} /\ l.text \in Text
      /\ loads' \subseteq loads /\ inputs' = inputs
  BY <1>1 DEF LoadDone, RestOK
<1>3. Empty \in Doc /\ url \in Fragment /\ timer \in BOOLEAN /\ TRUE \in BOOLEAN
  BY <1>1, DocumentsAssumption DEF RestOK
<1> DEFINE Loaded == /\ PanelsInv' /\ url' \in Fragment /\ timer' \in BOOLEAN
                     /\ UNCHANGED <<shareable, syncs, syncEpoch>>
<1>4. CASE l.via = "file"
  <2>1. LoadText(l.text, url, TRUE)
    BY <1>4 DEF LoadDone
  <2>2. Loaded
    BY <1>2, <1>3, <2>1, LoadTextKeeps
  <2>3. QED
    BY <1>1, <1>2, <2>2, Parts DEF RestOK
<1>5. CASE l.via = "fromUrl"
  <2>1. LoadText(l.text, [kind |-> "url", of |-> l.text], timer)
    BY <1>5 DEF LoadDone
  <2>2. [kind |-> "url", of |-> l.text] \in Fragment
    BY <1>2 DEF Fragment
  <2>3. Loaded
    BY <1>2, <1>3, <2>1, <2>2, LoadTextKeeps
  <2>4. QED
    BY <1>1, <1>2, <2>3, Parts DEF RestOK
<1>6. CASE l.via = "fragment"
  <2>1. CASE l.text \in Unrenderable \cup {Unreachable}
    <3>1. Load(Empty) /\ UNCHANGED address
      BY <1>6, <2>1 DEF LoadDone
    <3>2. Loaded
      BY <1>1, <1>3, <3>1, LoadKeeps DEF address
    <3>3. QED
      BY <1>1, <1>2, <3>2, Parts DEF RestOK
  <2>2. CASE l.text \notin Unrenderable \cup {Unreachable}
    <3>1. LoadText(l.text, url, timer)
      BY <1>6, <2>2 DEF LoadDone
    <3>2. Loaded
      BY <1>2, <1>3, <3>1, LoadTextKeeps
    <3>3. QED
      BY <1>1, <1>2, <3>2, Parts DEF RestOK
  <2>3. QED
    BY <2>1, <2>2
<1>7. QED
  BY <1>2, <1>4, <1>5, <1>6

(* A selection draws the node from the document of now. *)
LEMMA SelectInv ==
  ASSUME Inv, NEW path \in Path, Select(path)
  PROVE  Inv'
<1>1. RestOK /\ PanelsInv
  BY Parts
<1>2. /\ doc \in Doc /\ doc' = doc /\ path \in dag /\ UNCHANGED <<address, loads>>
      /\ RenderSelection(doc', path, cache, IF path \in Paths[doc] THEN Current ELSE NoDoc)
  BY <1>1 DEF Select, PanelsInv
<1>3. cache \in [Path -> {NoDoc, doc'}] /\ PanelsOK
  BY <1>1, <1>2 DEF PanelsInv, PanelsOK, CacheIsCurrent
<1>4. doc' \notin Unrenderable => path \in Paths[doc]
  BY <1>1, <1>2, DocumentsAssumption DEF PanelsInv, PanelsShowDocument
<1>5. PanelsInv'
  BY <1>2, <1>3, <1>4, RenderSelectionKeeps
<1>6. inputs' \in 0 .. MaxInputs
  BY <1>1, InputCounts DEF Select
<1>7. QED
  BY <1>1, <1>2, <1>5, <1>6, Parts DEF RestOK, address

(* While the document can be printed the editors write into it, so an edit *)
(* of an older document object finds one on the page that cannot be.       *)
LEMMA ApplyInv ==
  ASSUME Inv, NEW c \in Doc, Apply(c)
  PROVE  Inv'
<1>1. RestOK /\ PanelsInv /\ PanelsOK
  BY Parts DEF PanelsInv
<1>2. selected \in Path
  BY <1>1 DEF PanelsOK
<1>3. ASSUME editors = Current, doc' = c, Refresh(c, selected, Current, Current)
      PROVE  PanelsInv'
  <2>1. doc' \in Doc /\ Refresh(doc', selected, Current, Current)
    BY <1>3
  <2>2. Current \in Doc \cup {NoDoc, Current}
    OBVIOUS
  <2>3. QED
    BY <1>1, <1>2, <2>1, <2>2, RefreshKeeps
<1>4. ASSUME editors # Current, UNCHANGED doc, Refresh(doc, selected, c, c)
      PROVE  PanelsInv'
  <2>1. doc \in Doc
    BY <1>1 DEF Apply, PanelsInv, EditsNothing
  <2>2. doc \in Unrenderable
    BY <1>1, <1>4, <2>1, DocumentsAssumption DEF PanelsInv, PanelsShowDocument
  <2>3. /\ doc' \in Doc /\ doc' \in Unrenderable /\ c \in Doc \cup {NoDoc, Current}
        /\ Refresh(doc', selected, c, c)
    BY <1>4, <2>1, <2>2
  <2>4. QED
    BY <1>1, <1>2, <2>3, RefreshKeeps
<1>5. PanelsInv'
  BY <1>3, <1>4, Zenon DEF Apply
<1>6. inputs' \in 0 .. MaxInputs /\ loads' = loads /\ UNCHANGED <<url, shareable, syncs, syncEpoch>>
  BY <1>1, InputCounts DEF Apply
<1>7. timer' \in BOOLEAN
  BY DEF Apply
<1>8. QED
  BY <1>1, <1>5, <1>6, <1>7, Parts DEF RestOK

(* Only the read the display waits for is shown. *)
LEMMA ReadDoneInv ==
  ASSUME Inv, NEW r \in reads, ReadDone(r)
  PROVE  Inv'
<1>1. RestOK /\ PanelsInv /\ PanelsOK
  BY Parts DEF PanelsInv
<1>2. /\ reads' = reads \ {r}
      /\ UNCHANGED <<doc, editors, dag, selected, displayEpoch, cache, address, loads, inputs>>
  BY DEF ReadDone
<1>3. r.path \in Path /\ r.of \in Doc
  BY <1>1, PathsAssumption DEF PanelsOK
<1>4. \/ /\ r.epoch = displayEpoch
         /\ \E kind \in {"array", "error"} :
              display' = [kind |-> kind, path |-> r.path, of |-> r.of]
      \/ display' = display
  BY DEF ReadDone
<1>5. PanelsOK'
  BY <1>1, <1>2, <1>3, <1>4 DEF PanelsOK
<1>6. DisplayIsCurrent'
  BY <1>1, <1>2, <1>4 DEF PanelsInv, DisplayIsCurrent, Awaited
<1>7. PanelsInv'
  BY <1>1, <1>2, <1>5, <1>6 DEF PanelsInv, CacheIsCurrent, PanelsShowDocument, EditsNothing
<1>8. QED
  BY <1>1, <1>2, <1>7, Parts DEF RestOK, address

(* The timer starts an address of the document of now, if it can. *)
LEMMA TimerFiresInv ==
  ASSUME Inv, TimerFires
  PROVE  Inv'
<1>1. RestOK /\ PanelsInv
  BY Parts
<1>2. /\ timer' = FALSE /\ UNCHANGED <<doc, panels, url, shareable, loads, inputs>>
      /\ syncEpoch' = IF doc = NoDoc THEN syncEpoch ELSE syncEpoch + 1
      /\ syncs' = IF doc \in Unserializable \cup {NoDoc} THEN syncs
                  ELSE syncs \cup {[epoch |-> syncEpoch + 1, of |-> doc]}
  BY DEF TimerFires
<1>3. PanelsInv'
  BY <1>1, <1>2, PanelsUntouched
<1>4. syncEpoch' \in Nat /\ syncEpoch' >= syncEpoch
  BY <1>1, <1>2 DEF RestOK
<1>5. \A s \in syncs' : s \in [epoch : 0 .. syncEpoch', of : Doc \ Unserializable]
  <2>1. \A s \in syncs : s \in [epoch : 0 .. syncEpoch', of : Doc \ Unserializable]
    BY <1>1, <1>4 DEF RestOK
  <2>2. CASE doc \in Unserializable \cup {NoDoc}
    BY <1>2, <2>1, <2>2
  <2>3. CASE doc \notin Unserializable \cup {NoDoc}
    <3>1. doc \in Doc \ Unserializable /\ syncEpoch' = syncEpoch + 1
      BY <1>1, <1>2, <2>3 DEF PanelsInv
    <3>2. [epoch |-> syncEpoch + 1, of |-> doc] \in [epoch : 0 .. syncEpoch', of : Doc \ Unserializable]
      BY <1>4, <3>1
    <3>3. QED
      BY <1>2, <2>1, <2>3, <3>2
  <2>4. QED
    BY <2>2, <2>3
<1>6. QED
  BY <1>1, <1>2, <1>3, <1>4, <1>5, Parts DEF RestOK

(* An address is written, if it is the newest. *)
LEMMA SyncDoneInv ==
  ASSUME Inv, NEW s \in syncs, SyncDone(s)
  PROVE  Inv'
<1>1. RestOK /\ PanelsInv
  BY Parts
<1>2. syncs' = syncs \ {s} /\ UNCHANGED <<doc, panels, timer, syncEpoch, loads, inputs>>
  BY DEF SyncDone
<1>3. FragmentForDocument(s.of) \in Fragment
  BY <1>1 DEF RestOK, FragmentForDocument, EmptyFragment, Fragment, Text
<1>4. url' \in Fragment /\ shareable' \in BOOLEAN
  <2>1. CASE s.epoch = syncEpoch
    <3>1. url' = FragmentForDocument(s.of) /\ shareable' = (s.of \notin TooLarge)
      BY <2>1 DEF SyncDone
    <3>2. QED
      BY <1>3, <3>1
  <2>2. CASE s.epoch # syncEpoch
    BY <1>1, <2>2 DEF SyncDone, RestOK
  <2>3. QED
    BY <2>1, <2>2
<1>5. PanelsInv'
  BY <1>1, <1>2, PanelsUntouched
<1>6. QED
  BY <1>1, <1>2, <1>4, <1>5, Parts DEF RestOK

(* The page opens with the empty document or with none. *)
LEMMA InitInv == Init => Inv
<1> SUFFICES ASSUME Init PROVE Inv
  OBVIOUS
<1> DEFINE bare == url = EmptyFragment
<1>1. /\ url \in Fragment
      /\ doc = (IF bare THEN Empty ELSE NoDoc)
      /\ editors = (IF bare THEN Current ELSE NoDoc)
      /\ dag = (IF bare THEN Paths[Empty] ELSE {})
      /\ display = [kind |-> IF bare THEN "node" ELSE "hint", path |-> Root,
                    of |-> IF bare THEN Empty ELSE NoDoc]
      /\ loads = (IF bare THEN {}
                  ELSE {[via |-> "fragment", text |-> url.of, nr |-> MaxInputs]})
      /\ selected = Root /\ displayEpoch = 0 /\ cache = NoReads /\ reads = {}
      /\ shareable = TRUE /\ timer = FALSE /\ syncs = {} /\ syncEpoch = 0
      /\ inputs = 0
  BY DEF Init
<1>2. url.of \in Text
  BY <1>1, DocumentsAssumption DEF Fragment, Text
<1>3. Empty \in Doc \ Unrenderable /\ Root \in Path /\ Paths[Empty] \subseteq Path
  BY DocumentsAssumption, PathsAssumption
<1> HIDE DEF bare
<1>4. RestOK
  <2>1. [via |-> "fragment", text |-> url.of, nr |-> MaxInputs]
          \in [via : {"file", "fromUrl", "fragment"}, text : Text, nr : 0 .. MaxInputs]
    BY <1>2, InputsAssumption
  <2>2. loads \subseteq [via : {"file", "fromUrl", "fragment"}, text : Text, nr : 0 .. MaxInputs]
    BY <1>1, <2>1
  <2>3. inputs \in 0 .. MaxInputs
    BY <1>1, InputsAssumption
  <2>4. QED
    BY <1>1, <2>2, <2>3 DEF RestOK
<1>5. PanelsOK
  BY <1>1, <1>3 DEF PanelsOK, NoReads
<1>6. CacheIsCurrent /\ DisplayIsCurrent
  BY <1>1 DEF CacheIsCurrent, DisplayIsCurrent, NoReads
<1>7. PanelsShowDocument /\ EditsNothing
  BY <1>1, <1>3, DocumentsAssumption DEF PanelsShowDocument, EditsNothing
<1>8. doc \in Doc \cup {NoDoc}
  BY <1>1, <1>3
<1>9. PanelsInv
  BY <1>5, <1>6, <1>7, <1>8 DEF PanelsInv
<1>10. QED
  BY <1>4, <1>9, Parts

(* Every handler, and whatever settles, keeps the invariant. *)
LEMMA NextInv == Inv /\ [Next]_vars => Inv'
<1> SUFFICES ASSUME Inv, [Next]_vars PROVE Inv'
  OBVIOUS
<1>1. CASE User
  <2>1. \A text \in Text : Paste(text) => Inv'
    BY PasteInv
  <2>2. \A via \in {"file", "fromUrl"}, text \in Text : Request(via, text) => Inv'
    BY RequestInv
  <2>3. \A fragment \in Fragment : Navigate(fragment) => Inv'
    BY NavigateInv
  <2>4. \A path \in Path : Select(path) => Inv'
    BY SelectInv
  <2>5. \A c \in Doc : Apply(c) => Inv'
    BY ApplyInv
  <2>6. QED
    BY <1>1, <2>1, <2>2, <2>3, <2>4, <2>5, Zenon DEF User
<1>2. CASE Settle
  BY <1>2, LoadDoneInv, ReadDoneInv, SyncDoneInv, TimerFiresInv DEF Settle
<1>3. CASE UNCHANGED vars
  <2>1. PanelsInv /\ RestOK
    BY Parts
  <2>2. UNCHANGED <<doc, panels, address, loads, inputs>>
    BY <1>3 DEF vars
  <2>3. PanelsInv'
    BY <2>1, <2>2, PanelsUntouched
  <2>4. QED
    BY <2>1, <2>2, <2>3, Parts DEF RestOK, address
<1>4. QED
  BY <1>1, <1>2, <1>3 DEF Next

-----------------------------------------------------------------------------
(***************************************************************************)
(* The inductive invariant, whatever the user does and in whatever order   *)
(* loads, reads and compressions settle.                                   *)
(***************************************************************************)
THEOREM Invariance == Spec => []Inv
<1>1. QED
  BY InitInv, NextInv, PTL DEF Spec

(* Types: what is on its way to the address bar can always be printed.     *)
THEOREM TypeCorrectness == Spec => []TypeOK
<1>1. Inv => TypeOK
  BY DEF Inv
<1>2. QED
  BY <1>1, Invariance, PTL

(***************************************************************************)
(* What is displayed is the selected node of the document the page holds:  *)
(* no read that a later selection, edit or load overtook is shown.         *)
(***************************************************************************)
THEOREM DisplayIsFresh == Spec => []DisplayFresh
<1>1. Inv => DisplayFresh
  BY DEF Inv, DisplayIsCurrent, DisplayFresh
<1>2. QED
  BY <1>1, Invariance, PTL

(***************************************************************************)
(* A document the page can print is the one its panels show and its        *)
(* editors write into.                                                     *)
(***************************************************************************)
THEOREM PanelsAreOfTheDocument == Spec => []PanelsShowDocument
<1>1. Inv => PanelsShowDocument
  BY DEF Inv
<1>2. QED
  BY <1>1, Invariance, PTL

-----------------------------------------------------------------------------
(* The array viewer.                                                       *)

(* A vector is drawn along its one dimension and has no menu but for that. *)
OneDimension == Dim # {} /\ Len(shape) < 2 => xDim = 0 /\ yDim = -1

RolesInv == RolesTypeOK /\ RolesDistinct /\ PlaneOfThreeUp /\ NeverPastEnd /\ OneDimension

-----------------------------------------------------------------------------
(* Numbers below a bound have a largest: the one whose distance from the   *)
(* bound is least.                                                         *)
LEMMA MaxIsMember ==
  ASSUME NEW n \in Nat, NEW S, S \subseteq 0 .. n, S # {}
  PROVE  Max(S) \in S
<1> DEFINE T == {n - i : i \in S}
           R == OpToRel(<, Nat)
<1>1. T \subseteq Nat /\ T # {}
  <2>1. \A i \in S : i \in 0 .. n /\ n - i \in Nat
    OBVIOUS
  <2>2. PICK i \in S : TRUE
    OBVIOUS
  <2>3. n - i \in T
    OBVIOUS
  <2>4. QED
    BY <2>1, <2>3
<1>2. \A i, j \in Nat : i < j => <<i, j>> \in R
  BY DEF OpToRel
<1>3. PICK t \in T : \A u \in T : ~ (<<u, t>> \in R)
  <2>1. IsWellFoundedOn(R, Nat)
    BY NatLessThanWellFounded
  <2> HIDE DEF R, T
  <2>2. QED
    BY <1>1, <2>1, WFMin
<1>4. \A u \in T : t <= u
  <2> HIDE DEF R, T
  <2>1. ASSUME NEW u \in T
        PROVE  t <= u
    <3>1. u \in Nat /\ t \in Nat /\ ~(u < t)
      BY <1>1, <1>2, <1>3
    <3>2. QED
      BY <3>1
  <2>2. QED
    BY <2>1
<1>5. PICK i \in S : t = n - i
  OBVIOUS
<1>6. \A j \in S : i >= j
  <2>1. ASSUME NEW j \in S
        PROVE  i >= j
    <3>1. n - j \in T
      OBVIOUS
    <3>2. n - i <= n - j
      BY <1>4, <1>5, <3>1
    <3>3. i \in 0 .. n /\ j \in 0 .. n
      OBVIOUS
    <3>4. QED
      BY <3>2, <3>3
  <2>2. QED
    BY <2>1
<1>7. QED
  BY <1>6 DEF Max

(* The dimensions of a shape and their extents. *)
LEMMA DimsOfShape ==
  ASSUME NEW s \in Shape
  PROVE  /\ Len(s) \in Nat /\ Dims(s) = 0 .. Len(s) - 1
         /\ \A d \in Dims(s) : Extent(s, d) \in Nat
<1>1. s \in Seq(Nat)
  BY ShapeAssumption
<1>2. QED
  BY <1>1 DEF Dims, Extent

(* An index clamped to a shape is within it, or -1 where it is empty. *)
LEMMA ClampedIndex ==
  ASSUME NEW s \in Shape, NEW i \in [Dims(s) -> Int], \A d \in Dims(s) : i[d] >= -1
  PROVE  /\ Clamped(i, s) \in [Dims(s) -> Int]
         /\ \A d \in Dims(s) : Clamped(i, s)[d] >= -1 /\ Clamped(i, s)[d] < Extent(s, d)
  BY DimsOfShape DEF Clamped, Smaller

-----------------------------------------------------------------------------
(* A viewer that starts afresh on an array satisfies the invariant. *)
LEMMA FreshStart ==
  ASSUME NEW s \in Shape
  PROVE  /\ InitialState(s).x \in Dims(s) \cup {-1} /\ InitialState(s).y \in Dims(s) \cup {-1}
         /\ Dims(s) # {} => InitialState(s).x # InitialState(s).y
         /\ Len(s) > 2 => InitialState(s).x \in Dims(s) /\ InitialState(s).y \in Dims(s)
         /\ Dims(s) # {} /\ Len(s) < 2 => InitialState(s).x = 0 /\ InitialState(s).y = -1
         /\ InitialState(s).index \in [Dims(s) -> Int]
         /\ \A d \in Dims(s) : InitialState(s).index[d] >= -1
<1>1. /\ Len(s) \in Nat /\ Dims(s) = 0 .. Len(s) - 1
      /\ InitialState(s).x = Len(s) - 1
      /\ InitialState(s).y = IF Len(s) >= 2 THEN Len(s) - 2 ELSE -1
      /\ InitialState(s).index = [d \in Dims(s) |-> 0]
  BY DimsOfShape DEF InitialState
<1>2. Dims(s) # {} => Len(s) >= 1
  BY <1>1
<1>3. Dims(s) # {} /\ Len(s) < 2 => Len(s) - 1 = 0
  BY <1>1, <1>2
<1>4. Dims(s) # {} => InitialState(s).x # InitialState(s).y
  BY <1>1, <1>2
<1>5. QED
  BY <1>1, <1>2, <1>3, <1>4

(* The first array shown begins with its last two dimensions. *)
LEMMA RolesInitInv == RolesInit => RolesInv
<1> SUFFICES ASSUME RolesInit
             PROVE  RolesInv
  OBVIOUS
<1>1. shape \in Shape
  BY DEF RolesInit
<1>2. /\ index \in [Dim -> Int]
      /\ \A d \in Dim : index[d] >= -1 /\ index[d] < Extent(shape, d)
  BY <1>1, FreshStart, ClampedIndex DEF RolesInit, Dim
<1>3. xDim = InitialState(shape).x /\ yDim = InitialState(shape).y
  BY DEF RolesInit
<1>4. RolesTypeOK
  BY <1>1, <1>2, <1>3, FreshStart DEF RolesTypeOK, Dim
<1>5. RolesDistinct /\ PlaneOfThreeUp /\ OneDimension
  BY <1>1, <1>3, FreshStart DEF RolesDistinct, PlaneOfThreeUp, OneDimension, Dim
<1>6. QED
  BY <1>2, <1>4, <1>5 DEF RolesInv, NeverPastEnd

(* Another array: the state is kept and clamped, or begun anew. *)
LEMMA ShowInv ==
  ASSUME RolesInv, NEW s \in Shape, Show(s)
  PROVE  RolesInv'
<1>1. CASE Len(s) = Len(shape)
  <2>1. Dim' = Dim /\ Dims(s) = Dim /\ shape \in Shape
    BY <1>1, DimsOfShape DEF Show, RolesInv, RolesTypeOK, Dim
  <2>2. /\ index' \in [Dims(s) -> Int]
        /\ \A d \in Dims(s) : index'[d] >= -1 /\ index'[d] < Extent(s, d)
    BY <1>1, <2>1, ClampedIndex DEF Show, RolesInv, RolesTypeOK
  <2>3. QED
    BY <1>1, <2>1, <2>2
       DEF Show, RolesInv, RolesTypeOK, RolesDistinct, PlaneOfThreeUp, NeverPastEnd, OneDimension
<1>2. CASE Len(s) # Len(shape)
  <2>1. Dim' = Dims(s)
    BY DEF Show, Dim
  <2>2. /\ index' \in [Dims(s) -> Int]
        /\ \A d \in Dims(s) : index'[d] >= -1 /\ index'[d] < Extent(s, d)
    BY <1>2, FreshStart, ClampedIndex DEF Show
  <2>3. QED
    BY <1>2, <2>1, <2>2, FreshStart
       DEF Show, RolesInv, RolesTypeOK, RolesDistinct, PlaneOfThreeUp, NeverPastEnd, OneDimension
<1>3. QED
  BY <1>1, <1>2

(* A choice touches the roles only; what is left to show of each menu      *)
(* entry is where X and Y go.                                              *)
LEMMA ChoiceInv ==
  ASSUME RolesInv, NEW d \in Dim, NEW role \in {"X", "Y", "slice"}, Choose(d, role),
         xDim' \in Dim \cup {-1}, yDim' \in Dim \cup {-1}, xDim' # yDim',
         Len(shape) > 2 => xDim' \in Dim /\ yDim' \in Dim,
         Len(shape) < 2 => xDim' = 0 /\ yDim' = -1
  PROVE  RolesInv'
<1>1. UNCHANGED <<shape, index>> /\ Dim' = Dim
  BY DEF Choose, Dim
<1>2. QED
  BY <1>1
     DEF RolesInv, RolesTypeOK, RolesDistinct, PlaneOfThreeUp, NeverPastEnd, OneDimension

(* What the invariant says of the roles, in one place. *)
LEMMA Roles ==
  ASSUME RolesInv, NEW d \in Dim
  PROVE  /\ Len(shape) \in Nat /\ Dim = 0 .. Len(shape) - 1
         /\ xDim \in Dim \cup {-1} /\ yDim \in Dim \cup {-1} /\ xDim # yDim
         /\ Len(shape) > 2 => xDim \in Dim /\ yDim \in Dim
         /\ Len(shape) < 2 => xDim = 0 /\ yDim = -1
<1>1. Len(shape) \in Nat /\ Dim = 0 .. Len(shape) - 1
  BY DimsOfShape DEF RolesInv, RolesTypeOK, Dim
<1>2. Dim # {}
  OBVIOUS
<1>3. QED
  BY <1>1, <1>2 DEF RolesInv, RolesTypeOK, RolesDistinct, PlaneOfThreeUp, OneDimension

(* X for a dimension; the one that was X takes its place if it was Y. *)
LEMMA ChooseXInv ==
  ASSUME RolesInv, NEW d \in Dim, ChooseX(d)
  PROVE  RolesInv'
<1>1. Choose(d, "X") /\ xDim # d
  BY DEF ChooseX, Choose, RoleOf
<1>2. /\ xDim' = d
      /\ yDim' = IF yDim = d THEN xDim ELSE yDim
  BY <1>1 DEF ChooseX, RoleOf
<1>3. /\ Len(shape) \in Nat /\ Dim = 0 .. Len(shape) - 1 /\ d \in Dim
      /\ xDim \in Dim \cup {-1} /\ yDim \in Dim \cup {-1} /\ xDim # yDim
      /\ Len(shape) > 2 => xDim \in Dim /\ yDim \in Dim
      /\ Len(shape) < 2 => xDim = 0 /\ yDim = -1
  BY Roles
<1>4. xDim' \in Dim \cup {-1} /\ yDim' \in Dim \cup {-1} /\ xDim' # yDim'
  BY <1>1, <1>2, <1>3
<1>5. Len(shape) > 2 => xDim' \in Dim /\ yDim' \in Dim
  BY <1>1, <1>2, <1>3
<1>6. ~(Len(shape) < 2)
  BY <1>1, <1>3
<1>7. QED
  BY <1>1, <1>4, <1>5, <1>6, ChoiceInv

(* Y for a dimension; the one that was Y takes its place if it was X. *)
LEMMA ChooseYInv ==
  ASSUME RolesInv, NEW d \in Dim, ChooseY(d)
  PROVE  RolesInv'
<1>1. Choose(d, "Y") /\ Len(shape) >= 2 /\ (xDim = d \/ yDim # d)
  BY DEF ChooseY, Choose, RoleOf
<1>2. /\ yDim' = d
      /\ xDim' = IF xDim = d THEN yDim ELSE xDim
  BY DEF ChooseY, RoleOf
<1>3. /\ Len(shape) \in Nat /\ Dim = 0 .. Len(shape) - 1 /\ d \in Dim
      /\ xDim \in Dim \cup {-1} /\ yDim \in Dim \cup {-1} /\ xDim # yDim
      /\ Len(shape) > 2 => xDim \in Dim /\ yDim \in Dim
      /\ Len(shape) < 2 => xDim = 0 /\ yDim = -1
  BY Roles
<1>4. xDim' \in Dim \cup {-1} /\ yDim' \in Dim \cup {-1} /\ xDim' # yDim'
  BY <1>1, <1>2, <1>3
<1>5. Len(shape) > 2 => xDim' \in Dim /\ yDim' \in Dim
  BY <1>1, <1>2, <1>3
<1>6. ~(Len(shape) < 2)
  BY <1>1, <1>3
<1>7. QED
  BY <1>1, <1>4, <1>5, <1>6, ChoiceInv

(* Slice for X: Y becomes X, and this dimension Y. *)
LEMMA ChooseSliceForXInv ==
  ASSUME RolesInv, NEW d \in Dim, ChooseSliceForX(d)
  PROVE  RolesInv'
<1>1. Choose(d, "slice") /\ xDim = d
  BY DEF ChooseSliceForX, RoleOf
<1>2. /\ xDim' = IF yDim >= 0 THEN yDim
                 ELSE IF d = 0 THEN Smaller(1, Len(shape) - 1) ELSE 0
      /\ yDim' = IF yDim = xDim' THEN d ELSE yDim
  BY DEF ChooseSliceForX
<1>3. xDim' \in Dim
  BY <1>2, Roles DEF Smaller
<1>4. yDim' \in Dim \cup {-1} /\ xDim' # yDim'
  BY <1>1, <1>2, <1>3, Roles
<1>5. Len(shape) > 2 => yDim' \in Dim
  BY <1>2, Roles
<1>6. Len(shape) < 2 => xDim' = 0 /\ yDim' = -1
  BY <1>2, <1>3, Roles
<1>7. QED
  BY <1>1, <1>3, <1>4, <1>5, <1>6, ChoiceInv

(* Slice for Y: the largest dimension that is free becomes Y. *)
LEMMA ChooseSliceForYInv ==
  ASSUME RolesInv, NEW d \in Dim, ChooseSliceForY(d)
  PROVE  RolesInv'
<1> DEFINE others == Dim \ {xDim, d}
<1>1. Choose(d, "slice") /\ yDim = d
  BY DEF ChooseSliceForY, RoleOf
<1>2. yDim' = (IF others = {} THEN -1 ELSE Max(others)) /\ xDim' = xDim
  BY DEF ChooseSliceForY
<1>3. /\ Len(shape) \in Nat /\ Dim = 0 .. Len(shape) - 1
      /\ Len(shape) >= 2
      /\ xDim \in Dim \cup {-1} /\ xDim # yDim
      /\ Len(shape) > 2 => xDim \in Dim
  <2>1. d \in 0 .. Len(shape) - 1 /\ Len(shape) \in Nat
    BY Roles
  <2>2. ~(Len(shape) < 2)
    BY <1>1, <2>1, Roles
  <2>3. QED
    BY <2>1, <2>2, Roles
<1>4. others # {} => Max(others) \in others
  <2>1. others \subseteq 0 .. Len(shape) /\ Len(shape) \in Nat
    BY Roles
  <2> HIDE DEF others
  <2>2. QED
    BY <2>1, MaxIsMember
<1>5. others = {} => xDim # -1 /\ ~(Len(shape) > 2)
  <2>1. \A i \in Dim : others = {} => i = xDim \/ i = d
    OBVIOUS
  <2>2. 0 \in Dim /\ 1 \in Dim /\ (Len(shape) > 2 => 2 \in Dim)
    BY <1>3
  <2>3. d \in Dim /\ d # -1 /\ -1 \notin Dim
    BY <1>3
  <2> HIDE DEF others
  <2>4. QED
    BY <2>1, <2>2, <2>3
<1>6. yDim' \in Dim \cup {-1} /\ xDim' # yDim'
  BY <1>2, <1>4, <1>5
<1>7. Len(shape) > 2 => yDim' \in Dim
  BY <1>2, <1>4, <1>5
<1>8. ~(Len(shape) < 2)
  BY <1>3
<1>9. QED
  BY <1>1, <1>2, <1>3, <1>6, <1>7, <1>8, ChoiceInv

(* A slider stays within the dimension it moves in. *)
LEMMA SlideInv ==
  ASSUME RolesInv, NEW d \in Dim, NEW i \in 0 .. Extent(shape, d) - 1, Slide(d, i)
  PROVE  RolesInv'
<1>1. shape \in Shape /\ Extent(shape, d) \in Nat /\ Dim' = Dim
  BY DimsOfShape DEF RolesInv, RolesTypeOK, Dim, Slide
<1>2. index' = [index EXCEPT ![d] = i] /\ UNCHANGED <<shape, xDim, yDim>>
  BY DEF Slide
<1>3. /\ index' \in [Dim -> Int]
      /\ \A e \in Dim : index'[e] >= -1 /\ index'[e] < Extent(shape, e)
  BY <1>1, <1>2 DEF RolesInv, RolesTypeOK, NeverPastEnd
<1>4. QED
  BY <1>1, <1>2, <1>3
     DEF RolesInv, RolesTypeOK, RolesDistinct, PlaneOfThreeUp, NeverPastEnd, OneDimension

(* Every choice, and every other array, keeps the invariant. *)
LEMMA RolesNextInv == RolesInv /\ [RolesNext]_rolesVars => RolesInv'
<1> SUFFICES ASSUME RolesInv, [RolesNext]_rolesVars
             PROVE  RolesInv'
  OBVIOUS
<1>1. CASE UNCHANGED rolesVars
  BY <1>1
     DEF rolesVars, RolesInv, RolesTypeOK, RolesDistinct, PlaneOfThreeUp, NeverPastEnd, OneDimension, Dim
<1>2. QED
  BY <1>1, ShowInv, ChooseXInv, ChooseYInv, ChooseSliceForXInv, ChooseSliceForYInv, SlideInv
     DEF RolesNext

(* The inductive invariant, for arrays of every rank and extent. *)
THEOREM RolesInvariance == RolesSpec => []RolesInv
<1>1. QED
  BY RolesInitInv, RolesNextInv, PTL DEF RolesSpec

(* X and Y never fall on one dimension, whatever is chosen in any order    *)
(* and whatever arrays follow one another at the path.                     *)
THEOREM RolesStayDistinct == RolesSpec => []RolesDistinct
<1>1. RolesInv => RolesDistinct
  BY DEF RolesInv
<1>2. QED
  BY <1>1, RolesInvariance, PTL

(* Arrays of three dimensions and more always show a plane of two of them. *)
THEOREM AlwaysAPlane == RolesSpec => []PlaneOfThreeUp
<1>1. RolesInv => PlaneOfThreeUp
  BY DEF RolesInv
<1>2. QED
  BY <1>1, RolesInvariance, PTL

(* No index points past the end of the array that is shown. *)
THEOREM IndexWithinArray == RolesSpec => []NeverPastEnd
<1>1. RolesInv => NeverPastEnd
  BY DEF RolesInv
<1>2. QED
  BY <1>1, RolesInvariance, PTL

-----------------------------------------------------------------------------
(* A path of a document whose keys R1 accepts: no segment is empty. *)
NodePath(p) == p \in Seq(STRING) /\ \A i \in 1 .. Len(p) : p[i] # ""

(* The first segments of a path are a path, which AsPath leaves alone. *)
LEMMA FrontOfPath ==
  ASSUME NEW p, NodePath(p), NEW n \in 0 .. Len(p)
  PROVE  /\ NodePath(SubSeq(p, 1, n)) /\ AsPath(SubSeq(p, 1, n)) = SubSeq(p, 1, n)
         /\ Len(SubSeq(p, 1, n)) = n /\ \A i \in 1 .. n : SubSeq(p, 1, n)[i] = p[i]
<1>1. p \in Seq(STRING) /\ Len(p) \in Nat /\ n \in Nat /\ n <= Len(p)
  <2>1. p \in Seq(STRING)
    BY DEF NodePath
  <2>2. Len(p) \in Nat
    BY <2>1, LenProperties
  <2>3. QED
    BY <2>1, <2>2
<1> DEFINE s == SubSeq(p, 1, n)
<1>2. s \in Seq(STRING) /\ Len(s) = n /\ \A i \in 1 .. n : s[i] = p[i]
  <2>1. 1 \in 1 .. Len(p) + 1 /\ n \in 1 - 1 .. Len(p)
    BY <1>1
  <2>2. /\ s \in Seq(STRING)
        /\ Len(s) = IF 1 <= n THEN n - 1 + 1 ELSE 0
        /\ \A i \in 1 .. n - 1 + 1 : s[i] = p[1 + i - 1]
    BY <1>1, <2>1, SubSeqProperties
  <2>3. Len(s) = n
    BY <1>1, <2>2
  <2>4. ASSUME NEW i \in 1 .. n PROVE s[i] = p[i]
    <3>1. i \in 1 .. n - 1 + 1 /\ 1 + i - 1 = i
      BY <1>1
    <3>2. QED
      BY <3>1, <2>2
  <2>5. QED
    BY <2>2, <2>3, <2>4
<1> HIDE DEF s
<1>3. NodePath(s)
  <2>1. \A i \in 1 .. n : i \in 1 .. Len(p)
    BY <1>1
  <2>2. QED
    BY <2>1, <1>2 DEF NodePath
<1>4. s # <<"">>
  <2>1. ASSUME s = <<"">> PROVE FALSE
    <3>1. Len(s) = 1 /\ s[1] = ""
      BY <2>1
    <3>2. n = 1
      BY <3>1, <1>2
    <3>3. 1 \in 1 .. n
      BY <3>2
    <3>4. 1 \in 1 .. Len(p)
      BY <1>1, <3>2
    <3>5. s[1] = p[1]
      BY <3>3, <1>2
    <3>6. p[1] # ""
      BY <3>4 DEF NodePath
    <3>7. QED
      BY <3>1, <3>5, <3>6
  <2>2. QED
    BY <2>1
<1>5. AsPath(s) = s
  BY <1>4 DEF AsPath
<1>6. QED
  BY <1>2, <1>3, <1>5 DEF s

(* The keys of such a document, and the paths metadata keys describe. *)
LEMMA KeysOfDocument ==
  ASSUME KeysWellFormed, DOMAIN document \subseteq Key
  PROVE  /\ \A k \in DOMAIN document : k \in Seq(STRING) /\ Len(k) \in Nat \ {0} /\ k # NoKey
         /\ \A k \in MetaKeys : NodePath(k) /\ Metadata(k) = Front(k) /\ NodePath(Front(k))
         /\ \A k, l \in MetaKeys : Metadata(k) = Metadata(l) => k = l
<1>1. ASSUME NEW k \in DOMAIN document
      PROVE  k \in Seq(STRING) /\ Len(k) \in Nat \ {0} /\ k # NoKey
  <2>1. k \in Seq(STRING) /\ k # <<>>
    BY TreeKeyAssumption
  <2>2. QED
    BY <2>1 DEF NoKey
<1>2. ASSUME NEW k \in MetaKeys
      PROVE  /\ NodePath(k) /\ Metadata(k) = Front(k) /\ NodePath(Front(k))
             /\ Len(Front(k)) = Len(k) - 1 /\ \A i \in 1 .. Len(k) - 1 : Front(k)[i] = k[i]
             /\ k[Len(k)] = "zarr.json"
  <2>1. k \in DOMAIN document /\ k[Len(k)] = "zarr.json"
    BY DEF MetaKeys, IsMetadataKey
  <2>2. k \in Seq(STRING) /\ Len(k) \in Nat \ {0}
    BY <2>1, <1>1
  <2>3. NodePath(k)
    <3>1. k # <<"">>
      <4>1. ASSUME k = <<"">> PROVE FALSE
        <5>1. Len(k) = 1 /\ k[1] = ""
          BY <4>1
        <5>2. QED
          BY <5>1, <2>1
      <4>2. QED
        BY <4>1
    <3>2. \A i \in 1 .. Len(k) : k[i] \notin {"", ".", ".."}
      BY <3>1, <2>1 DEF KeysWellFormed, IsWellFormed
    <3>3. QED
      BY <3>2, <2>2 DEF NodePath
  <2>4. Len(k) - 1 \in 0 .. Len(k)
    BY <2>2
  <2>5. QED
    BY <2>1, <2>3, <2>4, FrontOfPath DEF Metadata, Front
<1>3. ASSUME NEW k \in MetaKeys, NEW l \in MetaKeys, Metadata(k) = Metadata(l) PROVE k = l
  <2>1. Front(k) = Front(l)
    BY <1>2, <1>3
  <2>2. k \in Seq(STRING) /\ l \in Seq(STRING) /\ Len(k) \in Nat \ {0} /\ Len(l) \in Nat \ {0}
    BY <1>1 DEF MetaKeys
  <2>3. Len(k) = Len(l)
    <3>1. Len(k) - 1 = Len(l) - 1
      BY <1>2, <2>1
    <3>2. QED
      BY <3>1, <2>2
  <2>4. ASSUME NEW i \in 1 .. Len(k) PROVE k[i] = l[i]
    <3>1. i \in 1 .. Len(k) - 1 \/ i = Len(k)
      BY <2>2
    <3>2. CASE i \in 1 .. Len(k) - 1
      BY <3>2, <1>2, <2>1, <2>3
    <3>3. CASE i = Len(k)
      BY <3>3, <1>2, <2>3
    <3>4. QED
      BY <3>1, <3>2, <3>3
  <2>5. QED
    BY <2>2, <2>3, <2>4, SeqEqual
<1>4. QED
  BY <1>1, <1>2, <1>3

(* SetToSeq has every member of a finite set in one place. *)
LEMMA SequenceOfSet ==
  ASSUME NEW S, IsFiniteSet(S)
  PROVE  /\ SetToSeq(S) \in Seq(S)
         /\ \A x \in S : \E i \in 1 .. Len(SetToSeq(S)) :
              \A j \in 1 .. Len(SetToSeq(S)) : SetToSeq(S)[j] = x <=> j = i
<1> DEFINE n == Cardinality(S)
<1>1. n \in Nat /\ ExistsBijection(1 .. n, S)
  BY FS_CardinalityType
<1>2. PICK g \in [1 .. n -> S] : IsInjective(g)
  BY <1>1 DEF ExistsBijection, Bijection, Injection
<1> DEFINE f == SetToSeq(S)
<1>3. f \in [1 .. n -> S] /\ IsInjective(f)
  BY <1>2 DEF SetToSeq
<1>4. IsFiniteSet(1 .. n) /\ Cardinality(1 .. n) = n
  BY <1>1, FS_Interval
<1> HIDE DEF f
<1>5. f \in Surjection(1 .. n, S)
  <2>1. f \in Injection(1 .. n, S)
    BY <1>3 DEF Injection
  <2>2. QED
    BY <2>1, <1>4, FS_Injection
<1>6. f \in Seq(S) /\ Len(f) = n
  BY <1>1, <1>3
<1>7. \A x \in S : \E i \in 1 .. n : f[i] = x
  BY <1>5 DEF Surjection
<1>8. \A i, j \in 1 .. n : f[i] = f[j] => i = j
  BY <1>3 DEF IsInjective
<1>9. QED
  BY <1>6, <1>7, <1>8 DEF f

(* The ancestors of a path: its first segments, as many as one likes. *)
LEMMA AncestorsOfPath ==
  ASSUME NEW path, NodePath(path)
  PROVE  /\ <<>> \in Ancestors(path) /\ path \in Ancestors(path) /\ IsFiniteSet(Ancestors(path))
         /\ \A q \in Ancestors(path) : NodePath(q) /\ Parent(q) \in Ancestors(path)
<1> DEFINE f == [n \in 0 .. Len(path) |-> SubSeq(path, 1, n)]
<1>1. path \in Seq(STRING) /\ Len(path) \in Nat
  <2>1. path \in Seq(STRING)
    BY DEF NodePath
  <2>2. QED
    BY <2>1, LenProperties
<1>2. \A n \in 0 .. Len(path) : AsPath(SubSeq(path, 1, n)) = f[n]
  BY FrontOfPath
<1>3. Ancestors(path) = {f[n] : n \in 0 .. Len(path)}
  BY <1>2 DEF Ancestors
<1>4. \A n \in 0 .. Len(path) : NodePath(f[n]) /\ Len(f[n]) = n /\ \A i \in 1 .. n : f[n][i] = path[i]
  BY FrontOfPath
<1>5. f[0] = <<>>
  <2>1. 0 \in 0 .. Len(path)
    BY <1>1
  <2>2. f[0] \in Seq(STRING) /\ Len(f[0]) = 0
    BY <2>1, <1>4 DEF NodePath
  <2> HIDE DEF f
  <2>3. QED
    BY <2>2, EmptySeq
<1>6. f[Len(path)] = path
  <2>1. Len(path) \in 0 .. Len(path)
    BY <1>1
  <2>2. f[Len(path)] \in Seq(STRING) /\ Len(f[Len(path)]) = Len(path)
    BY <2>1, <1>4 DEF NodePath
  <2>3. \A i \in 1 .. Len(path) : f[Len(path)][i] = path[i]
    BY <2>1, <1>4
  <2> HIDE DEF f
  <2>4. QED
    BY <2>2, <2>3, <1>1, SeqEqual
<1>7. IsFiniteSet(Ancestors(path))
  <2>1. f \in Surjection(0 .. Len(path), Ancestors(path))
    BY <1>3 DEF Surjection
  <2>2. IsFiniteSet(0 .. Len(path))
    BY <1>1, FS_Interval
  <2> HIDE DEF f
  <2>3. QED
    BY <2>1, <2>2, FS_Surjection
<1>8. ASSUME NEW n \in 0 .. Len(path) PROVE Parent(f[n]) \in Ancestors(path)
  <2>1. Front(f[n]) = SubSeq(f[n], 1, n - 1)
    BY <1>4 DEF Front
  <2>2. CASE n = 0
    <3>1. Front(f[n]) = <<>>
      BY <2>1, <2>2, <1>5
    <3>2. <<>> # <<"">>
      OBVIOUS
    <3>3. Parent(f[n]) = f[0]
      BY <3>1, <3>2, <1>5 DEF Parent, AsPath
    <3>4. QED
      BY <3>3, <1>1, <1>3
  <2>3. CASE n # 0
    <3>1. n - 1 \in 0 .. n /\ n - 1 \in 0 .. Len(path) /\ n \in Nat
      BY <1>1, <2>3
    <3>2. NodePath(f[n]) /\ Len(f[n]) = n
      BY <1>4
    <3> DEFINE g == SubSeq(f[n], 1, n - 1)
    <3>3. NodePath(g) /\ AsPath(g) = g /\ Len(g) = n - 1 /\ \A i \in 1 .. n - 1 : g[i] = f[n][i]
      <4> HIDE DEF f
      <4>1. QED
        BY <3>1, <3>2, FrontOfPath
    <3>4. g = f[n - 1]
      <4>1. g \in Seq(STRING) /\ f[n - 1] \in Seq(STRING) /\ Len(f[n - 1]) = n - 1
        BY <3>1, <3>3, <1>4 DEF NodePath
      <4>2. \A i \in 1 .. n - 1 : i \in 1 .. n
        BY <3>1
      <4>3. \A i \in 1 .. n - 1 : g[i] = f[n - 1][i]
        BY <3>1, <3>3, <4>2, <1>4
      <4> HIDE DEF f, g
      <4>4. QED
        BY <4>1, <4>3, <3>3, SeqEqual
    <3>5. Parent(f[n]) = f[n - 1]
      BY <2>1, <3>3, <3>4 DEF Parent
    <3>6. QED
      BY <3>1, <3>5, <1>3
  <2>4. QED
    BY <2>2, <2>3
<1>9. QED
  <2>1. 0 \in 0 .. Len(path) /\ Len(path) \in 0 .. Len(path)
    BY <1>1
  <2> HIDE DEF f
  <2>2. QED
    BY <2>1, <1>3, <1>4, <1>5, <1>6, <1>7, <1>8

(* A child listed once, and one listed nowhere. *)
Once(s, x) == \E i \in 1 .. Len(s) : \A j \in 1 .. Len(s) : s[j] = x <=> j = i
Never(s, x) == \A j \in 1 .. Len(s) : s[j] # x

(* The children added come after those a node has. *)
LEMMA OnceInConcat ==
  ASSUME NEW T, NEW s \in Seq(T), NEW t \in Seq(T), NEW x
  PROVE  /\ Once(s, x) /\ Never(t, x) => Once(s \o t, x)
         /\ Never(s, x) /\ Once(t, x) => Once(s \o t, x)
         /\ Never(s, x) /\ Never(t, x) => Never(s \o t, x)
<1> DEFINE st == s \o t
           m == Len(s)
           n == Len(t)
<1>1. m \in Nat /\ n \in Nat
  BY LenProperties
<1>2. Len(st) = m + n /\ \A i \in 1 .. m + n : st[i] = IF i <= m THEN s[i] ELSE t[i - m]
  BY ConcatProperties
<1>3. \A i \in 1 .. m : i \in 1 .. m + n /\ st[i] = s[i]
  BY <1>1, <1>2
<1>4. \A i \in 1 .. n : m + i \in 1 .. m + n /\ st[m + i] = t[i]
  BY <1>1, <1>2
<1> HIDE DEF st, m, n
<1>5. \A i \in 1 .. m + n : i \in 1 .. m \/ \E j \in 1 .. n : i = m + j
  <2>1. ASSUME NEW i \in 1 .. m + n, i \notin 1 .. m PROVE i - m \in 1 .. n /\ i = m + (i - m)
    BY <1>1, <2>1
  <2>2. QED
    BY <2>1
<1>6. 1 .. Len(st) = 1 .. m + n
  BY <1>2
<1>7. ASSUME Once(s, x), Never(t, x) PROVE Once(st, x)
  <2>1. PICK i \in 1 .. m : \A j \in 1 .. m : s[j] = x <=> j = i
    BY <1>7 DEF Once, m
  <2>2. \A j \in 1 .. n : t[j] # x /\ m + j # i
    BY <1>1, <1>7, <2>1 DEF Never, n
  <2>3. \A j \in 1 .. m + n : st[j] = x <=> j = i
    BY <1>3, <1>4, <1>5, <2>1, <2>2
  <2>4. i \in 1 .. Len(st) /\ \A j \in 1 .. Len(st) : st[j] = x <=> j = i
    BY <2>3, <1>6, <1>3
  <2>5. QED
    BY <2>4 DEF Once
<1>8. ASSUME Never(s, x), Once(t, x) PROVE Once(st, x)
  <2>1. PICK i \in 1 .. n : \A j \in 1 .. n : t[j] = x <=> j = i
    BY <1>8 DEF Once, n
  <2>2. \A j \in 1 .. m : s[j] # x /\ j # m + i
    BY <1>1, <1>8, <2>1 DEF Never, m
  <2>3. \A j \in 1 .. n : m + j = m + i <=> j = i
    BY <1>1, <2>1
  <2>4. \A j \in 1 .. m + n : st[j] = x <=> j = m + i
    BY <1>3, <1>4, <1>5, <2>1, <2>2, <2>3
  <2>5. m + i \in 1 .. Len(st) /\ \A j \in 1 .. Len(st) : st[j] = x <=> j = m + i
    BY <2>4, <1>6, <1>4
  <2>6. QED
    BY <2>5 DEF Once
<1>9. ASSUME Never(s, x), Never(t, x) PROVE Never(st, x)
  <2>1. \A j \in 1 .. m : s[j] # x
    BY <1>9 DEF Never, m
  <2>2. \A j \in 1 .. n : t[j] # x
    BY <1>9 DEF Never, n
  <2>3. \A j \in 1 .. m + n : st[j] # x
    BY <2>1, <2>2, <1>3, <1>4, <1>5
  <2>4. QED
    BY <2>3, <1>6 DEF Never
<1>10. QED
  BY <1>7, <1>8, <1>9 DEF st

Kind == {"array", "group", "implicit"}
Node == [kind : Kind, metaKey : Key \cup {NoKey}, children : Seq(Seq(STRING)), dataKeys : SUBSET Key]

(* A map of nodes that is a tree: the ancestors of a node are there, and   *)
(* each node but the root is listed once, under its parent.                *)
IsTree(map) ==
  /\ \A p \in DOMAIN map : NodePath(p) /\ Parent(p) \in DOMAIN map
  /\ \A p \in DOMAIN map : \A i \in 1 .. Len(map[p].children) : map[p].children[i] \in DOMAIN map \ {<<>>}
  /\ \A p \in DOMAIN map : \A q \in DOMAIN map \ {<<>>} :
       IF p = Parent(q) THEN Once(map[p].children, q) ELSE Never(map[p].children, q)

(* A node as ensure finds it, and the new nodes that become its children.  *)
Before(map, p) == IF p \in DOMAIN map THEN map[p] ELSE NewNode
Added(map, path, p) == {q \in Ancestors(path) \ DOMAIN map : q # <<>> /\ Parent(q) = p}

(* What ensure makes of a map of nodes: the ancestors it lacked are added, *)
(* blank; nothing is changed but the lists of children, which grow.        *)
LEMMA Ensured ==
  ASSUME NEW map, \A p \in DOMAIN map : map[p] \in Node, NEW path, NodePath(path)
  PROVE  /\ Ensure(map, path) \in [DOMAIN map \cup Ancestors(path) -> Node]
         /\ \A p \in DOMAIN map \cup Ancestors(path) :
              /\ Ensure(map, path)[p].kind = Before(map, p).kind
              /\ Ensure(map, path)[p].metaKey = Before(map, p).metaKey
              /\ Ensure(map, path)[p].dataKeys = Before(map, p).dataKeys
              /\ Before(map, p).children \in Seq(Seq(STRING))
              /\ IsFiniteSet(Added(map, path, p)) /\ SetToSeq(Added(map, path, p)) \in Seq(Added(map, path, p))
              /\ Ensure(map, path)[p].children = Before(map, p).children \o SetToSeq(Added(map, path, p))
<1> DEFINE added == Ancestors(path) \ DOMAIN map
           dom == DOMAIN map \cup Ancestors(path)
           old(p) == IF p \in DOMAIN map THEN map[p] ELSE NewNode
           below(p) == {q \in added : q # <<>> /\ Parent(q) = p}
           E == Ensure(map, path)
<1>1. dom = DOMAIN map \cup added
  OBVIOUS
<1>2. E = [p \in DOMAIN map \cup added |-> [old(p) EXCEPT !.children = @ \o SetToSeq(below(p))]]
  BY DEF Ensure
<1>3. NewNode \in Node
  <2>1. <<>> \in Seq(Seq(STRING))
    BY EmptySeq
  <2>2. QED
    BY <2>1 DEF NewNode, Node, Kind
<1>4. \A p \in dom : old(p) \in Node
  BY <1>3
<1> HIDE DEF E, old
<1>5. ASSUME NEW p \in dom
      PROVE  /\ old(p).children \in Seq(Seq(STRING)) /\ SetToSeq(below(p)) \in Seq(below(p))
             /\ IsFiniteSet(below(p)) /\ old(p).children \o SetToSeq(below(p)) \in Seq(Seq(STRING))
  <2>1. old(p).children \in Seq(Seq(STRING))
    BY <1>4 DEF Node
  <2>2. IsFiniteSet(below(p))
    <3>1. IsFiniteSet(Ancestors(path))
      BY AncestorsOfPath
    <3>2. below(p) \subseteq Ancestors(path)
      OBVIOUS
    <3> HIDE DEF below
    <3>3. QED
      BY <3>1, <3>2, FS_Subset
  <2>3. SetToSeq(below(p)) \in Seq(below(p))
    <3> HIDE DEF below
    <3>1. QED
      BY <2>2, SequenceOfSet
  <2>4. below(p) \subseteq Seq(STRING)
    BY AncestorsOfPath DEF NodePath
  <2> HIDE DEF below
  <2>5. SetToSeq(below(p)) \in Seq(Seq(STRING))
    BY <2>3, <2>4
  <2>6. QED
    BY <2>1, <2>2, <2>3, <2>5, ConcatProperties
<1>6. ASSUME NEW p \in dom
      PROVE  /\ E[p] \in Node /\ E[p].kind = old(p).kind /\ E[p].metaKey = old(p).metaKey
             /\ E[p].dataKeys = old(p).dataKeys
             /\ E[p].children = old(p).children \o SetToSeq(below(p))
  <2> DEFINE c == old(p).children \o SetToSeq(below(p))
  <2>1. E[p] = [old(p) EXCEPT !.children = c]
    BY <1>1, <1>2
  <2>2. old(p) \in Node /\ c \in Seq(Seq(STRING))
    BY <1>4, <1>5
  <2> HIDE DEF c
  <2>3. QED
    <3>1. E[p] \in Node /\ E[p].kind = old(p).kind /\ E[p].metaKey = old(p).metaKey
          /\ E[p].dataKeys = old(p).dataKeys /\ E[p].children = c
      BY <2>1, <2>2 DEF Node
    <3>2. QED
      BY <3>1 DEF c
<1>7. E \in [dom -> Node]
  <2> HIDE DEF below, dom, added
  <2>1. E = [p \in dom |-> E[p]]
    BY <1>1, <1>2
  <2>2. QED
    BY <2>1, <1>6
<1>8. QED
  BY <1>5, <1>6, <1>7 DEF E, old, Before, Added

(* A tree is a tree still once a path has been made. *)
LEMMA EnsureKeepsTree ==
  ASSUME NEW map, IsTree(map), \A p \in DOMAIN map : map[p] \in Node, NEW path, NodePath(path)
  PROVE  IsTree(Ensure(map, path))
<1> DEFINE E == Ensure(map, path)
           dom == DOMAIN map \cup Ancestors(path)
           added == Ancestors(path) \ DOMAIN map
           old(p) == IF p \in DOMAIN map THEN map[p].children ELSE <<>>
           below(p) == Added(map, path, p)
           new(p) == SetToSeq(below(p))
<1>1. DOMAIN E = dom
  BY Ensured
<1>2. ASSUME NEW p \in dom
      PROVE  /\ E[p].children = old(p) \o new(p) /\ IsFiniteSet(below(p))
             /\ old(p) \in Seq(Seq(STRING)) /\ new(p) \in Seq(below(p)) /\ new(p) \in Seq(Seq(STRING))
  <2>1. /\ E[p].children = Before(map, p).children \o new(p)
        /\ IsFiniteSet(below(p)) /\ new(p) \in Seq(below(p))
        /\ Before(map, p).children \in Seq(Seq(STRING))
    BY Ensured
  <2>2. Before(map, p).children = old(p)
    BY DEF Before, NewNode
  <2>3. below(p) \subseteq Seq(STRING)
    BY AncestorsOfPath DEF NodePath, Added
  <2> HIDE DEF below, old, new, E
  <2>4. new(p) \in Seq(Seq(STRING))
    BY <2>1, <2>3
  <2>5. QED
    BY <2>1, <2>2, <2>4
<1>3. ASSUME NEW p \in dom PROVE NodePath(p) /\ Parent(p) \in dom
  BY AncestorsOfPath DEF IsTree
<1>4. ASSUME NEW p \in dom
      PROVE  /\ \A i \in 1 .. Len(old(p)) : old(p)[i] \in DOMAIN map \ {<<>>}
             /\ \A q \in DOMAIN map \ {<<>>} : p = Parent(q) => Once(old(p), q)
             /\ \A q \in DOMAIN map \ {<<>>} : p # Parent(q) => Never(old(p), q)
             /\ \A q : q \notin DOMAIN map => Never(old(p), q)
  <2>1. CASE p \in DOMAIN map
    BY <2>1 DEF IsTree, Never
  <2>2. CASE p \notin DOMAIN map
    <3>1. old(p) = <<>> /\ Len(old(p)) = 0
      BY <2>2
    <3>2. \A q : Never(old(p), q)
      BY <3>1 DEF Never
    <3>3. \A q \in DOMAIN map : Parent(q) \in DOMAIN map
      BY DEF IsTree
    <3> HIDE DEF old
    <3>4. QED
      BY <2>2, <3>1, <3>2, <3>3
  <2>3. QED
    BY <2>1, <2>2
<1>5. ASSUME NEW p \in dom
      PROVE  /\ \A i \in 1 .. Len(new(p)) : new(p)[i] \in added \ {<<>>}
             /\ \A q \in added \ {<<>>} : p = Parent(q) => Once(new(p), q)
             /\ \A q : q \notin added \/ p # Parent(q) => Never(new(p), q)
  <2>1. \A i \in 1 .. Len(new(p)) : new(p)[i] \in below(p)
    BY <1>2, ElementOfSeq
  <2>2. \A q \in below(p) : Once(new(p), q)
    <3> HIDE DEF below
    <3>1. IsFiniteSet(below(p))
      BY <1>2
    <3>2. ASSUME NEW q \in below(p) PROVE Once(SetToSeq(below(p)), q)
      BY <3>1, SequenceOfSet DEF Once
    <3>3. QED
      BY <3>2
  <2> HIDE DEF new
  <2>3. QED
    BY <2>1, <2>2 DEF Never, Added
<1> HIDE DEF E, old, new
<1>6. ASSUME NEW p \in dom, NEW q \in dom \ {<<>>}
      PROVE  IF p = Parent(q) THEN Once(E[p].children, q) ELSE Never(E[p].children, q)
  <2>1. old(p) \in Seq(Seq(STRING)) /\ new(p) \in Seq(Seq(STRING)) /\ E[p].children = old(p) \o new(p)
    BY <1>2
  <2>2. CASE p = Parent(q) /\ q \in DOMAIN map
    <3>1. Once(old(p), q) /\ (q \notin added \/ p # Parent(q))
      BY <2>2, <1>4
    <3>2. Never(new(p), q)
      BY <3>1, <1>5
    <3>3. QED
      BY <2>1, <2>2, <3>1, <3>2, OnceInConcat
  <2>3. CASE p = Parent(q) /\ q \notin DOMAIN map
    <3>1. Never(old(p), q) /\ q \in added
      BY <2>3, <1>4
    <3>2. Once(new(p), q)
      BY <2>3, <3>1, <1>5
    <3>3. QED
      BY <2>1, <2>3, <3>1, <3>2, OnceInConcat
  <2>4. CASE p # Parent(q)
    <3>1. Never(old(p), q) /\ (q \notin added \/ p # Parent(q))
      BY <2>4, <1>4
    <3>2. Never(new(p), q)
      BY <3>1, <1>5
    <3>3. QED
      BY <2>1, <2>4, <3>1, <3>2, OnceInConcat
  <2>5. QED
    BY <2>2, <2>3, <2>4
<1>7. ASSUME NEW p \in dom, NEW i \in 1 .. Len(E[p].children)
      PROVE  E[p].children[i] \in dom \ {<<>>}
  <2>1. old(p) \in Seq(Seq(STRING)) /\ new(p) \in Seq(Seq(STRING)) /\ E[p].children = old(p) \o new(p)
    BY <1>2
  <2>2. Len(old(p)) \in Nat /\ Len(new(p)) \in Nat
    BY <2>1, LenProperties
  <2>3. /\ i \in 1 .. Len(old(p)) + Len(new(p))
        /\ E[p].children[i] = IF i <= Len(old(p)) THEN old(p)[i] ELSE new(p)[i - Len(old(p))]
    BY <2>1, ConcatProperties
  <2>4. CASE i \in 1 .. Len(old(p))
    BY <2>2, <2>3, <2>4, <1>4
  <2>5. CASE i \notin 1 .. Len(old(p))
    <3>1. ~(i <= Len(old(p))) /\ i - Len(old(p)) \in 1 .. Len(new(p))
      BY <2>2, <2>3, <2>5
    <3>2. new(p)[i - Len(old(p))] \in added \ {<<>>}
      BY <3>1, <1>5
    <3>3. QED
      BY <2>3, <3>1, <3>2
  <2>6. QED
    BY <2>4, <2>5
<1>8. IsTree(E)
  BY <1>1, <1>3, <1>6, <1>7 DEF IsTree
<1>9. QED
  BY <1>8 DEF E

-----------------------------------------------------------------------------
(* The passes over a document's keys.  The metadata keys visited, and no   *)
(* others, describe the nodes at their paths.                              *)
DocumentInv ==
  /\ DOMAIN document \subseteq Key /\ todo \subseteq DOMAIN document
  /\ \A k \in MetaKeys : document[k] \in Meaning

MetadataInPlace ==
  /\ \A k \in MetaKeys \ todo : Metadata(k) \in DOMAIN nodes /\ nodes[Metadata(k)].metaKey = k
  /\ \A p \in DOMAIN nodes :
       nodes[p].metaKey # NoKey => nodes[p].metaKey \in MetaKeys \ todo /\ Metadata(nodes[p].metaKey) = p

(* The other keys are visited last, and each visited is with its owner.    *)
DataInPlace ==
  /\ todo \cap MetaKeys # {} => DataKeys \subseteq todo
  /\ \A k \in DataKeys \ todo : Deepest(k) \in DOMAIN nodes
  /\ \A p \in DOMAIN nodes :
       /\ nodes[p].dataKeys \subseteq DataKeys
       /\ \A k \in DataKeys : k \in nodes[p].dataKeys <=> (k \notin todo /\ p = Deepest(k))

TreeInv ==
  /\ DocumentInv
  /\ KeysWellFormed =>
       /\ nodes \in [DOMAIN nodes -> Node] /\ IsTree(nodes) /\ <<>> \in DOMAIN nodes
       /\ MetadataInPlace /\ DataInPlace

(* Nothing about the document depends on the nodes. *)
LEMMA DocumentUnchanged ==
  ASSUME document' = document
  PROVE  /\ MetaKeys' = MetaKeys /\ DataKeys' = DataKeys /\ KeysWellFormed' = KeysWellFormed
         /\ \A k : Deepest(k)' = Deepest(k)
<1>1. MetaKeys' = MetaKeys
  BY DEF MetaKeys
<1>2. DataKeys' = DataKeys /\ Described' = Described
  BY <1>1 DEF DataKeys, Described
<1>3. KeysWellFormed' = KeysWellFormed
  BY DEF KeysWellFormed
<1>4. ASSUME NEW k PROVE Deepest(k)' = Deepest(k)
  BY <1>2 DEF Deepest
<1>5. QED
  BY <1>1, <1>2, <1>3, <1>4

(* At first there is the root, and no key has been visited. *)
LEMMA TreeInitInv == ASSUME TreeInit PROVE TreeInv
<1>1. DocumentInv
  BY DEF TreeInit, DocumentInv, MetaKeys
<1>2. DOMAIN <<>> = {} /\ NodePath(<<>>)
  <2>1. <<>> \in Seq(STRING) /\ Len(<<>>) = 0
    BY EmptySeq
  <2>2. QED
    BY <2>1 DEF NodePath
<1>3. IsTree(<<>>) /\ \A p \in DOMAIN <<>> : <<>>[p] \in Node
  BY <1>2 DEF IsTree
<1>4. nodes = Ensure(<<>>, <<>>) /\ todo = DOMAIN document
  BY DEF TreeInit
<1>5. nodes \in [DOMAIN nodes -> Node] /\ <<>> \in DOMAIN nodes
      /\ \A p \in DOMAIN nodes : nodes[p].metaKey = NoKey /\ nodes[p].dataKeys = {}
  <2>1. /\ nodes \in [{} \cup Ancestors(<<>>) -> Node]
        /\ \A p \in {} \cup Ancestors(<<>>) : nodes[p].metaKey = Before(<<>>, p).metaKey
                                           /\ nodes[p].dataKeys = Before(<<>>, p).dataKeys
    <3> DEFINE map == <<>>
    <3>1. DOMAIN map = {} /\ NodePath(<<>>) /\ nodes = Ensure(map, <<>>)
          /\ \A p \in DOMAIN map : map[p] \in Node
      BY <1>2, <1>3, <1>4
    <3>2. /\ Ensure(map, <<>>) \in [DOMAIN map \cup Ancestors(<<>>) -> Node]
          /\ \A p \in DOMAIN map \cup Ancestors(<<>>) :
               /\ Ensure(map, <<>>)[p].metaKey = Before(map, p).metaKey
               /\ Ensure(map, <<>>)[p].dataKeys = Before(map, p).dataKeys
      <4> HIDE DEF map
      <4>1. QED
        BY <3>1, Ensured
    <3>3. QED
      BY <3>1, <3>2
  <2>2. \A p : Before(<<>>, p) = NewNode
    BY <1>2 DEF Before
  <2>3. QED
    BY <1>2, <2>1, <2>2, AncestorsOfPath DEF NewNode
<1>6. IsTree(nodes)
  BY <1>2, <1>3, <1>4, EnsureKeepsTree
<1>7. MetadataInPlace /\ DataInPlace
  BY <1>4, <1>5 DEF MetadataInPlace, DataInPlace, MetaKeys, DataKeys
<1>8. QED
  BY <1>1, <1>5, <1>6, <1>7 DEF TreeInv

(* First pass: the node is new or was an ancestor's, without metadata. *)
LEMMA AddNodeInv ==
  ASSUME TreeInv, NEW key \in Key, AddNode(key)
  PROVE  TreeInv'
<1>1. key \in todo /\ key \in MetaKeys /\ document' = document /\ todo' = todo \ {key}
  BY DEF AddNode, TreeInv, DocumentInv, MetaKeys
<1>2. MetaKeys' = MetaKeys /\ DataKeys' = DataKeys /\ (\A k : Deepest(k)' = Deepest(k))
      /\ KeysWellFormed' = KeysWellFormed
  BY <1>1, DocumentUnchanged
<1>3. DocumentInv'
  BY <1>1, <1>2 DEF DocumentInv, TreeInv
<1>4. ASSUME KeysWellFormed
      PROVE  /\ nodes' \in [DOMAIN nodes' -> Node] /\ IsTree(nodes') /\ <<>> \in DOMAIN nodes'
             /\ MetadataInPlace' /\ DataInPlace'
  <2> DEFINE m == Metadata(key)
             E == Ensure(nodes, m)
             dom == DOMAIN nodes \cup Ancestors(m)
             kind == IF document[key] = "neither" THEN "implicit" ELSE document[key]
  <2>1. /\ nodes \in [DOMAIN nodes -> Node] /\ IsTree(nodes) /\ <<>> \in DOMAIN nodes
        /\ MetadataInPlace /\ DataInPlace /\ DocumentInv
    BY <1>4 DEF TreeInv
  <2>2. /\ NodePath(m) /\ key # NoKey /\ key \in Key
        /\ \A k \in MetaKeys : Metadata(k) = m => k = key
    BY <1>1, <1>4, <2>1, KeysOfDocument DEF DocumentInv, MetaKeys
  <2>3. m \in dom
    BY <2>2, AncestorsOfPath
  <2>4. kind \in Kind
    BY <1>1, <2>1 DEF DocumentInv, Meaning, Kind
  <2> HIDE DEF m, kind
  <2>5. /\ E \in [dom -> Node] /\ IsTree(E)
        /\ \A p \in dom : /\ E[p].metaKey = Before(nodes, p).metaKey
                          /\ E[p].dataKeys = Before(nodes, p).dataKeys
    BY <2>1, <2>2, Ensured, EnsureKeepsTree
  <2> HIDE DEF E
  <2>6. nodes' = [E EXCEPT ![m].metaKey = key, ![m].kind = kind]
    BY DEF AddNode, E, m, kind
  <2> HIDE DEF dom
  <2>7. /\ nodes' \in [dom -> Node]
        /\ \A p \in dom : /\ nodes'[p].children = E[p].children
                          /\ nodes'[p].dataKeys = E[p].dataKeys
                          /\ nodes'[p].metaKey = IF p = m THEN key ELSE E[p].metaKey
    BY <2>2, <2>3, <2>4, <2>5, <2>6 DEF Node
  <2>8. DOMAIN nodes' = dom /\ DOMAIN E = dom
    BY <2>5, <2>7
  <2>9. IsTree(nodes')
    BY <2>5, <2>7, <2>8 DEF IsTree
  <2>10. \A p \in dom :
           /\ p \in DOMAIN nodes => nodes'[p].dataKeys = nodes[p].dataKeys
                                    /\ (p # m => nodes'[p].metaKey = nodes[p].metaKey)
           /\ p \notin DOMAIN nodes => nodes'[p].dataKeys = {} /\ (p # m => nodes'[p].metaKey = NoKey)
    BY <2>5, <2>7 DEF Before, NewNode
  <2>11. DOMAIN nodes \subseteq dom
    BY DEF dom
  <2>12. MetadataInPlace'
    <3>1. ASSUME NEW k \in MetaKeys \ todo'
          PROVE  Metadata(k) \in dom /\ nodes'[Metadata(k)].metaKey = k
      <4>1. CASE k = key
        BY <4>1, <2>3, <2>7 DEF m
      <4>2. CASE k # key
        <5>1. k \in MetaKeys \ todo
          BY <4>2, <1>1
        <5>2. Metadata(k) \in DOMAIN nodes /\ nodes[Metadata(k)].metaKey = k
          BY <5>1, <2>1 DEF MetadataInPlace
        <5>3. Metadata(k) # m
          BY <4>2, <2>2
        <5>4. QED
          BY <5>2, <5>3, <2>10, <2>11
      <4>3. QED
        BY <4>1, <4>2
    <3>2. ASSUME NEW p \in dom, nodes'[p].metaKey # NoKey
          PROVE  nodes'[p].metaKey \in MetaKeys \ todo' /\ Metadata(nodes'[p].metaKey) = p
      <4>1. CASE p = m
        BY <4>1, <2>7, <1>1 DEF m
      <4>2. CASE p # m
        <5>1. p \in DOMAIN nodes /\ nodes'[p].metaKey = nodes[p].metaKey
          BY <3>2, <4>2, <2>10
        <5>2. nodes[p].metaKey \in MetaKeys \ todo /\ Metadata(nodes[p].metaKey) = p
          BY <3>2, <5>1, <2>1 DEF MetadataInPlace
        <5>3. QED
          BY <5>1, <5>2, <1>1
      <4>3. QED
        BY <4>1, <4>2
    <3>3. QED
      BY <3>1, <3>2, <2>8, <1>2 DEF MetadataInPlace, Metadata
  <2>13. DataInPlace'
    <3>1. DataKeys \subseteq todo' /\ DataKeys \subseteq todo
      BY <1>1, <2>1 DEF DataInPlace, DataKeys
    <3>2. \A p \in DOMAIN nodes : nodes[p].dataKeys = {}
      BY <2>1, <3>1 DEF DataInPlace
    <3>3. \A p \in dom : nodes'[p].dataKeys = {}
      BY <3>2, <2>10
    <3>4. QED
      BY <3>1, <3>3, <2>8, <1>2 DEF DataInPlace
  <2>14. QED
    BY <2>1, <2>7, <2>8, <2>9, <2>11, <2>12, <2>13
<1>5. QED
  BY <1>2, <1>3, <1>4 DEF TreeInv

(* The path string of the first segments of a key that R1 accepts. *)
LEMMA PrefixOfKey ==
  ASSUME NEW key \in Seq(STRING), key # <<>>, IsWellFormed(key), NEW n \in 1 .. Len(key) - 1
  PROVE  Prefix(key, n) = SubSeq(key, 1, n) /\ AsPath(SubSeq(key, 1, n)) = SubSeq(key, 1, n)
<1>1. Len(key) \in Nat /\ 1 \in 1 .. Len(key) /\ 1 \in 1 .. n /\ n \in Nat /\ n \in 0 .. Len(key) /\ Len(key) # 1
  OBVIOUS
<1>2. NodePath(key)
  <2>1. ASSUME key = <<"">> PROVE FALSE
    <3>1. Len(key) = 1
      BY <2>1
    <3>2. QED
      BY <3>1, <1>1
  <2>2. \A i \in 1 .. Len(key) : key[i] \notin {"", ".", ".."}
    BY <2>1 DEF IsWellFormed
  <2>3. QED
    BY <2>2 DEF NodePath
<1>3. AsPath(SubSeq(key, 1, n)) = SubSeq(key, 1, n)
  BY <1>1, <1>2, FrontOfPath
<1>4. key[1] # ""
  BY <1>1, <1>2 DEF NodePath
<1> DEFINE I == {i \in 1 .. n : key[i] # ""}
<1>5. Prefix(key, n) = IF (IF I # {} THEN Min(I) ELSE 0) = 0 THEN <<>>
                       ELSE SubSeq(key, IF I # {} THEN Min(I) ELSE 0, n)
  BY DEF Prefix, SelectInSubSeq
<1>6. 1 \in I
  BY <1>1, <1>4
<1>7. \A i \in I : i \in Nat /\ 1 <= i
  <2>1. \A i \in 1 .. n : i \in Nat /\ 1 <= i
    OBVIOUS
  <2>2. I \subseteq 1 .. n
    OBVIOUS
  <2> HIDE DEF I
  <2>3. QED
    BY <2>1, <2>2
<1> HIDE DEF I
<1>8. Min(I) = 1
  BY <1>6, <1>7 DEF Min
<1>9. QED
  BY <1>3, <1>5, <1>6, <1>8

(* Once every metadata key has its node, ownerOf finds the deepest node    *)
(* that has metadata.                                                      *)
LEMMA OwnerIsDeepest ==
  ASSUME TreeInv, KeysWellFormed, todo \cap MetaKeys = {}, NEW key \in DOMAIN document
  PROVE  Owner(key) = Deepest(key) /\ Deepest(key) \in DOMAIN nodes
<1>1. <<>> \in DOMAIN nodes /\ MetadataInPlace /\ DocumentInv
  BY DEF TreeInv
<1>2. key \in Seq(STRING) /\ key # <<>> /\ Len(key) \in Nat /\ IsWellFormed(key)
  BY <1>1, KeysOfDocument DEF DocumentInv, KeysWellFormed, NoKey
<1>3. \A p : p \in Described <=> p \in DOMAIN nodes /\ nodes[p].metaKey # NoKey
  <2>1. \A k \in MetaKeys : Metadata(k) = Front(k) /\ k # NoKey /\ k \in MetaKeys \ todo
    BY <1>1, KeysOfDocument DEF DocumentInv, MetaKeys
  <2>2. ASSUME NEW p \in Described PROVE p \in DOMAIN nodes /\ nodes[p].metaKey # NoKey
    BY <2>1, <1>1 DEF Described, MetadataInPlace
  <2>3. ASSUME NEW p \in DOMAIN nodes, nodes[p].metaKey # NoKey PROVE p \in Described
    BY <2>1, <2>3, <1>1 DEF Described, MetadataInPlace
  <2>4. QED
    BY <2>2, <2>3
<1> DEFINE described == {n \in 1 .. Len(key) - 1 : Prefix(key, n) \in DOMAIN nodes
                                                  /\ nodes[Prefix(key, n)].metaKey # NoKey}
           above == {n \in 1 .. Len(key) - 1 : SubSeq(key, 1, n) \in Described}
<1>4. \A n \in 1 .. Len(key) - 1 : Prefix(key, n) = SubSeq(key, 1, n) /\ AsPath(SubSeq(key, 1, n)) = SubSeq(key, 1, n)
  BY <1>2, PrefixOfKey
<1>5. described = above
  BY <1>3, <1>4
<1>6. above # {} => Max(above) \in above
  <2>1. above \subseteq 0 .. Len(key)
    BY <1>2
  <2> HIDE DEF above
  <2>2. QED
    BY <2>1, <1>2, MaxIsMember
<1>7. Deepest(key) = IF above = {} THEN <<>> ELSE AsPath(SubSeq(key, 1, Max(above)))
  BY DEF Deepest
<1>8. Owner(key) = IF above = {} THEN <<>> ELSE Prefix(key, Max(above))
  BY <1>5 DEF Owner
<1>9. CASE above = {}
  BY <1>1, <1>7, <1>8, <1>9
<1>10. CASE above # {}
  <2>1. Max(above) \in 1 .. Len(key) - 1 /\ SubSeq(key, 1, Max(above)) \in Described
    BY <1>6, <1>10
  <2> HIDE DEF above
  <2>2. QED
    BY <2>1, <1>3, <1>4, <1>7, <1>8, <1>10
<1>11. QED
  BY <1>9, <1>10

(* Second pass: the key goes to its owner, and no other node changes. *)
LEMMA AddDataInv ==
  ASSUME TreeInv, NEW key \in Key, AddData(key)
  PROVE  TreeInv'
<1>1. /\ key \in todo /\ todo \cap MetaKeys = {} /\ document' = document /\ todo' = todo \ {key}
      /\ nodes' = [nodes EXCEPT ![Owner(key)].dataKeys = @ \cup {key}]
  BY DEF AddData
<1>2. MetaKeys' = MetaKeys /\ DataKeys' = DataKeys /\ (\A k : Deepest(k)' = Deepest(k))
      /\ KeysWellFormed' = KeysWellFormed
  BY <1>1, DocumentUnchanged
<1>3. DocumentInv'
  BY <1>1, <1>2 DEF DocumentInv, TreeInv
<1>4. ASSUME KeysWellFormed
      PROVE  /\ nodes' \in [DOMAIN nodes' -> Node] /\ IsTree(nodes') /\ <<>> \in DOMAIN nodes'
             /\ MetadataInPlace' /\ DataInPlace'
  <2> DEFINE o == Owner(key)
  <2>1. /\ nodes \in [DOMAIN nodes -> Node] /\ IsTree(nodes) /\ <<>> \in DOMAIN nodes
        /\ MetadataInPlace /\ DataInPlace /\ DocumentInv
    BY <1>4 DEF TreeInv
  <2>2. key \in DOMAIN document /\ key \in DataKeys /\ key \notin MetaKeys
    BY <1>1, <2>1 DEF DocumentInv, DataKeys
  <2>3. o = Deepest(key) /\ o \in DOMAIN nodes
    BY <1>1, <1>4, <2>2, OwnerIsDeepest
  <2> HIDE DEF o
  <2>4. nodes' = [nodes EXCEPT ![o].dataKeys = @ \cup {key}]
    BY <1>1 DEF o
  <2>5. /\ DOMAIN nodes' = DOMAIN nodes /\ nodes' \in [DOMAIN nodes -> Node]
        /\ \A p \in DOMAIN nodes :
             /\ nodes'[p].children = nodes[p].children /\ nodes'[p].metaKey = nodes[p].metaKey
             /\ nodes'[p].dataKeys = IF p = o THEN nodes[p].dataKeys \cup {key} ELSE nodes[p].dataKeys
    <3>1. DOMAIN nodes' = DOMAIN nodes
      BY <2>1, <2>4
    <3>2. ASSUME NEW p \in DOMAIN nodes
          PROVE  /\ nodes'[p] \in Node
                 /\ nodes'[p].children = nodes[p].children /\ nodes'[p].metaKey = nodes[p].metaKey
                 /\ nodes'[p].dataKeys = IF p = o THEN nodes[p].dataKeys \cup {key} ELSE nodes[p].dataKeys
      <4>1. nodes[p] \in Node
        BY <2>1
      <4>2. CASE p = o
        <5>1. nodes'[p] = [nodes[p] EXCEPT !.dataKeys = @ \cup {key}]
          BY <2>1, <2>4, <4>2
        <5>2. QED
          BY <4>1, <4>2, <5>1 DEF Node
      <4>3. CASE p # o
        BY <2>1, <2>4, <4>1, <4>3
      <4>4. QED
        BY <4>2, <4>3
    <3>3. nodes' \in [DOMAIN nodes -> Node]
      BY <2>1, <2>4, <3>1, <3>2
    <3>4. QED
      BY <3>1, <3>2, <3>3
  <2>6. IsTree(nodes')
    BY <2>1, <2>5 DEF IsTree
  <2>7. MetadataInPlace'
    <3>1. MetaKeys \ todo' = MetaKeys \ todo
      BY <1>1, <2>2
    <3>2. QED
      BY <3>1, <2>1, <2>5, <1>2 DEF MetadataInPlace, Metadata
  <2>8. DataInPlace'
    <3>1. todo' \cap MetaKeys = {}
      BY <1>1
    <3>2. \A k \in DataKeys \ todo' : Deepest(k) \in DOMAIN nodes
      BY <1>1, <2>1, <2>3 DEF DataInPlace
    <3>3. ASSUME NEW p \in DOMAIN nodes PROVE nodes'[p].dataKeys \subseteq DataKeys
      <4>1. nodes[p].dataKeys \subseteq DataKeys
        BY <2>1 DEF DataInPlace
      <4>2. nodes'[p].dataKeys \subseteq nodes[p].dataKeys \cup {key}
        BY <2>5
      <4>3. QED
        BY <4>1, <4>2, <2>2
    <3>4. ASSUME NEW p \in DOMAIN nodes, NEW k \in DataKeys
          PROVE  k \in nodes'[p].dataKeys <=> (k \notin todo' /\ p = Deepest(k))
      <4>1. k \in nodes[p].dataKeys <=> (k \notin todo /\ p = Deepest(k))
        BY <2>1 DEF DataInPlace
      <4>2. nodes'[p].dataKeys = IF p = o THEN nodes[p].dataKeys \cup {key} ELSE nodes[p].dataKeys
        BY <2>5
      <4>3. k \in todo' <=> k \in todo /\ k # key
        BY <1>1
      <4>4. CASE k = key
        <5>1. p = Deepest(k) <=> p = o
          BY <4>4, <2>3
        <5>2. k \in todo /\ k \notin todo'
          BY <4>4, <1>1
        <5>3. k \in nodes'[p].dataKeys <=> p = o
          BY <4>1, <4>2, <4>4, <5>2
        <5>4. QED
          BY <5>1, <5>2, <5>3
      <4>5. CASE k # key
        <5>1. k \in nodes'[p].dataKeys <=> k \in nodes[p].dataKeys
          BY <4>2, <4>5
        <5>2. QED
          BY <4>1, <4>3, <4>5, <5>1
      <4>6. QED
        BY <4>4, <4>5
    <3>5. QED
      BY <3>1, <3>2, <3>3, <3>4, <2>5, <1>2 DEF DataInPlace
  <2>9. QED
    BY <2>1, <2>5, <2>6, <2>7, <2>8
<1>5. QED
  BY <1>2, <1>3, <1>4 DEF TreeInv

(* The tree being made is always a tree, with every visited key in place. *)
THEOREM TreeInvariance == TreeSpec => []TreeInv
<1>1. TreeInit => TreeInv
  BY TreeInitInv
<1>2. TreeInv /\ [TreeNext]_treeVars => TreeInv'
  <2> SUFFICES ASSUME TreeInv, [TreeNext]_treeVars PROVE TreeInv'
    OBVIOUS
  <2>1. ASSUME NEW key \in Key, AddNode(key) PROVE TreeInv'
    BY <2>1, AddNodeInv
  <2>2. ASSUME NEW key \in Key, AddData(key) PROVE TreeInv'
    BY <2>2, AddDataInv
  <2>3. CASE UNCHANGED treeVars
    <3>1. document' = document /\ nodes' = nodes /\ todo' = todo
      BY <2>3 DEF treeVars
    <3>2. MetaKeys' = MetaKeys /\ DataKeys' = DataKeys /\ (\A k : Deepest(k)' = Deepest(k))
          /\ KeysWellFormed' = KeysWellFormed
      BY <3>1, DocumentUnchanged
    <3>3. QED
      BY <3>1, <3>2 DEF TreeInv, DocumentInv, MetadataInPlace, DataInPlace, Metadata
  <2>4. QED
    BY <2>1, <2>2, <2>3 DEF TreeNext
<1>3. QED
  BY <1>1, <1>2, PTL DEF TreeSpec

(* When both passes are over, every key of the document is in the tree in  *)
(* its one place, and every node can be reached from the root by one way.  *)
THEOREM EveryKeyHasItsPlace == TreeSpec => []EveryKeyInPlace
<1>1. TreeInv => EveryKeyInPlace
  <2> SUFFICES ASSUME TreeInv, Built, KeysWellFormed
               PROVE  /\ OneTree
                      /\ \A k \in DOMAIN document : ShownOnce(k)
                      /\ \A k \in DataKeys : k \in nodes[Deepest(k)].dataKeys
    BY DEF EveryKeyInPlace
  <2>1. /\ IsTree(nodes) /\ MetadataInPlace /\ DataInPlace /\ DocumentInv /\ todo = {}
        /\ nodes \in [DOMAIN nodes -> Node]
    BY DEF TreeInv, Built
  <2>2. OneTree
    <3>1. ASSUME NEW q \in DOMAIN nodes \ {<<>>}, NEW p \in DOMAIN nodes
          PROVE  Cardinality({i \in DOMAIN nodes[p].children : nodes[p].children[i] = q})
                   = IF p = Parent(q) THEN 1 ELSE 0
      <4> DEFINE c == nodes[p].children
                 at == {i \in DOMAIN c : c[i] = q}
      <4>1. c \in Seq(Seq(STRING)) /\ DOMAIN c = 1 .. Len(c)
        <5>1. nodes[p] \in Node
          BY <2>1
        <5>2. QED
          BY <5>1 DEF Node
      <4>2. IF p = Parent(q) THEN Once(c, q) ELSE Never(c, q)
        BY <2>1 DEF IsTree
      <4> HIDE DEF c
      <4>3. CASE p = Parent(q)
        <5>1. PICK i \in 1 .. Len(c) : \A j \in 1 .. Len(c) : c[j] = q <=> j = i
          BY <4>2, <4>3 DEF Once
        <5>2. at = {i}
          BY <4>1, <5>1
        <5>3. Cardinality(at) = 1
          BY <5>2, FS_Singleton
        <5>4. QED
          BY <4>3, <5>3 DEF c
      <4>4. CASE p # Parent(q)
        <5>1. at = {}
          BY <4>1, <4>2, <4>4 DEF Never
        <5>2. Cardinality(at) = 0
          BY <5>1, FS_EmptySet
        <5>3. QED
          BY <4>4, <5>2 DEF c
      <4>5. QED
        BY <4>3, <4>4
    <3>2. QED
      BY <3>1 DEF OneTree
  <2>3. ASSUME NEW k \in DOMAIN document PROVE ShownOnce(k)
    <3> DEFINE shown == {p \in DOMAIN nodes : nodes[p].metaKey = k \/ k \in nodes[p].dataKeys}
    <3>1. k # NoKey
      BY <2>1, KeysOfDocument DEF DocumentInv
    <3>2. \E p : shown = {p}
      <4>1. CASE k \in MetaKeys
        <5>1. Metadata(k) \in DOMAIN nodes /\ nodes[Metadata(k)].metaKey = k
          BY <4>1, <2>1 DEF MetadataInPlace
        <5>2. \A p \in DOMAIN nodes : nodes[p].metaKey = k => p = Metadata(k)
          BY <3>1, <2>1 DEF MetadataInPlace
        <5>3. \A p \in DOMAIN nodes : k \notin nodes[p].dataKeys
          BY <4>1, <2>1 DEF DataInPlace, DataKeys
        <5>4. shown = {Metadata(k)}
          BY <5>1, <5>2, <5>3
        <5>5. QED
          BY <5>4
      <4>2. CASE k \notin MetaKeys
        <5>1. k \in DataKeys \ todo
          BY <4>2, <2>1 DEF DataKeys
        <5>2. Deepest(k) \in DOMAIN nodes
          BY <5>1, <2>1 DEF DataInPlace
        <5>3. \A p \in DOMAIN nodes : k \in nodes[p].dataKeys <=> p = Deepest(k)
          BY <5>1, <2>1 DEF DataInPlace
        <5>4. \A p \in DOMAIN nodes : nodes[p].metaKey # k
          BY <4>2, <3>1, <2>1 DEF MetadataInPlace
        <5>5. shown = {Deepest(k)}
          BY <5>2, <5>3, <5>4
        <5>6. QED
          BY <5>5
      <4>3. QED
        BY <4>1, <4>2
    <3>3. Cardinality(shown) = 1
      <4> HIDE DEF shown
      <4>1. QED
        BY <3>2, FS_Singleton
    <3>4. QED
      BY <3>3 DEF ShownOnce, Quantify
  <2>4. ASSUME NEW k \in DataKeys PROVE k \in nodes[Deepest(k)].dataKeys
    <3>1. k \in DataKeys \ todo
      BY <2>1
    <3>2. QED
      BY <3>1, <2>1 DEF DataInPlace
  <2>5. QED
    BY <2>2, <2>3, <2>4
<1>2. QED
  BY <1>1, TreeInvariance, PTL

=============================================================================
