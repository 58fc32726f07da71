---------------------------- MODULE LanguageServer ----------------------------
(* One editor and the language server (src/mlody/lsp): the documents the editor
   has open, the server's copies of them, and the workspace it evaluated last.

   The server keeps every document twice: as the protocol library has it, and in
   a cache of parse trees whose text it brings up to date itself.  Messages are
   handled one at a time in the order they are sent.  A document that changed is
   parsed again with the tree of its old text, which nobody has edited to fit the
   new one, as a hint: the parser may take over nodes of the old tree, so the tree
   is the new text's, still the old one, or a mixture.  A text is a number, and a
   range edit leads from one text to the next: applied to any other text it
   leaves Garbage, or raises when its lines are not there. *)
EXTENDS Naturals, Sequences, SequencesExt

CONSTANTS Uris,
          FirstVersions,  \* the version an editor may give a document it opens
          Bad,            \* the texts that do not evaluate
          None, Garbage,
          MaxTexts,       \* bound: texts written
          MaxSends,       \* bound: messages of the editor
          MaxAway         \* bound: messages on their way

VARIABLES
  disk,       \* what each file holds
  buffer,     \* the editor's version and text of each document, or None when closed
  texts,      \* the number of texts there have been
  sends,
  inbox,      \* the messages on their way
  document,   \* the library's copy: None, or ver and text
  cache,      \* DocumentCache._cache: None, or ver and the text that was parsed
  tree,       \* and the text that its tree is of; Garbage for a mixture
  evaluator,  \* _evaluator: the files it was built from, or None
  failed,     \* _eval_error: the files that did not evaluate, or None
  shown,      \* the diagnostics the editor shows of each document: the text and
              \* the error they are of
  watcher,    \* the registration: "none", "asked" or "on"
  changed,    \* a change of a file the editor has yet to report
  \* ghosts
  missed,     \* a file changed after the load and before the editor watched it
  away,       \* documents asked about while they were closed, and since then
              \* opened with version 0
  over        \* documents whose tree was parsed over an older one's
vars == <<disk, buffer, texts, sends, inbox, document, cache, tree, evaluator, failed, shown,
          watcher, changed, missed, away, over>>
editor == <<disk, buffer, texts, changed>>
parsed == <<document, cache, tree, shown, away, over>>
loaded == <<evaluator, failed, watcher, missed>>

Copy(v, t) == [ver |-> v, text |-> t]
Broken(files) == \E u \in Uris : files[u] \in Bad

Init ==
  /\ disk \in [Uris -> {0, 1}] /\ texts = 1 /\ sends = 0
  /\ buffer = [u \in Uris |-> None] /\ document = [u \in Uris |-> None]
  /\ cache = [u \in Uris |-> None] /\ tree = cache /\ shown = cache /\ over = {}
  /\ inbox = <<[kind |-> "initialized"]>> /\ evaluator = None /\ failed = None
  /\ watcher = "none" /\ changed = FALSE /\ missed = FALSE /\ away = {}

(* --------------------------------------------------------------- the editor *)
Send(m) ==
  /\ sends < MaxSends /\ Len(inbox) < MaxAway
  /\ sends' = sends + 1 /\ inbox' = Append(inbox, m)
Untouched == UNCHANGED <<parsed, loaded>>

Open(u) == \E v \in FirstVersions :
  /\ buffer[u] = None /\ buffer' = [buffer EXCEPT ![u] = Copy(v, disk[u])]
  /\ Send([kind |-> "open", uri |-> u, ver |-> v, text |-> disk[u]])
  /\ UNCHANGED <<disk, texts, changed>> /\ Untouched
(* One notification holds one range edit or several, or the whole text. *)
Edit(from, to) == [from |-> from, to |-> to]
Change(u) == \E n \in 1..2, whole \in BOOLEAN :
  /\ buffer[u] # None /\ texts + n <= MaxTexts /\ texts' = texts + n
  /\ buffer' = [buffer EXCEPT ![u] = Copy(@.ver + 1, texts + n)]
  /\ Send([kind |-> "change", uri |-> u, ver |-> buffer[u].ver + 1,
           edits |-> IF whole THEN <<Edit(None, texts + n)>>
                     ELSE [i \in 1..n |-> Edit(IF i = 1 THEN buffer[u].text ELSE texts + i - 1,
                                               texts + i)]])
  /\ UNCHANGED <<disk, changed>> /\ Untouched
Close(u) ==
  /\ buffer[u] # None /\ buffer' = [buffer EXCEPT ![u] = None]
  /\ Send([kind |-> "close", uri |-> u]) /\ UNCHANGED <<disk, texts, changed>> /\ Untouched
(* Completion, definition, hover or tokens, of any document. *)
Ask(u) == Send([kind |-> "ask", uri |-> u]) /\ UNCHANGED editor /\ Untouched
(* The editor saves, or another program writes; unwatched, nobody is told. *)
Write(u) == \E t \in {texts + 1} \union (IF buffer[u] = None THEN {} ELSE {buffer[u].text}) :
  /\ t <= MaxTexts /\ t # disk[u] /\ disk' = [disk EXCEPT ![u] = t]
  /\ texts' = IF t > texts THEN t ELSE texts
  /\ changed' = (changed \/ watcher = "on")
  /\ missed' = (missed \/ watcher # "on")
  /\ UNCHANGED <<buffer, sends, inbox, parsed, evaluator, failed, watcher>>
Notify ==
  /\ changed /\ changed' = FALSE /\ Len(inbox) < MaxAway
  /\ inbox' = Append(inbox, [kind |-> "watched"])
  /\ UNCHANGED <<disk, buffer, texts, sends, parsed, loaded>>
Watch ==
  /\ watcher = "asked" /\ watcher' = "on"
  /\ UNCHANGED <<editor, sends, inbox, parsed, evaluator, failed, missed>>

(* --------------------------------------------------------------- the server *)
Handle(kind) ==
  /\ inbox # <<>> /\ Head(inbox).kind = kind /\ inbox' = Tail(inbox)
  /\ UNCHANGED editor /\ UNCHANGED sends

(* on_initialized and on_changed_watched_files; only the first registers, and
   only when it could load. *)
Load ==
  /\ evaluator' = IF Broken(disk) THEN None ELSE disk
  /\ failed' = IF Broken(disk) THEN disk ELSE None
OnInitialized ==
  /\ Handle("initialized") /\ Load /\ UNCHANGED <<parsed, missed>>
  /\ watcher' = IF Broken(disk) THEN watcher ELSE "asked"
OnWatchedKeeps ==
  /\ Handle("watched") /\ missed' = FALSE /\ UNCHANGED <<parsed, watcher>>
  /\ failed' = IF Broken(disk) THEN disk ELSE None
  /\ evaluator' = IF Broken(disk) THEN evaluator ELSE disk
OnWatched == Handle("watched") /\ Load /\ missed' = FALSE /\ UNCHANGED <<parsed, watcher>>

(* DocumentCache.update: a version that is there already is not parsed again. *)
Parsed(u, v) == cache[u] # None /\ cache[u].ver = v
Updated(u, v, t) == IF Parsed(u, v) THEN cache[u] ELSE Copy(v, t)
Trees(u, v, t) == IF Parsed(u, v) THEN {tree[u]}
                  ELSE IF cache[u] = None THEN {t} ELSE {t, tree[u], Garbage}
Update(u, v, t) ==
  /\ cache' = [cache EXCEPT ![u] = Updated(u, v, t)]
  /\ \E x \in Trees(u, v, t) : tree' = [tree EXCEPT ![u] = x]
  /\ over' = IF Parsed(u, v) THEN over
             ELSE IF cache[u] = None THEN over \ {u} ELSE over \union {u}
(* The errors in the tree as it is now, and those of the last evaluation. *)
Publish(u) == shown' = [shown EXCEPT ![u] = [text |-> tree'[u], error |-> failed]]

OnOpen ==
  /\ Handle("open") /\ UNCHANGED loaded
  /\ LET m == Head(inbox) IN
     /\ document' = [document EXCEPT ![m.uri] = Copy(m.ver, m.text)]
     /\ Update(m.uri, m.ver, m.text) /\ Publish(m.uri)
     /\ away' = IF cache[m.uri] = None \/ m.ver # 0 THEN away \ {m.uri}
                ELSE away \union {m.uri}
(* The edits are applied in their order to the cache's own text, or to the empty
   text if it has none. *)
Applied(e, t) == IF e.from \in {None, t} THEN e.to ELSE Garbage
ApplyReversed(edits, t) == FoldRight(Applied, edits, t)
Apply(edits, t) ==
  LET after[i \in 0..Len(edits)] == IF i = 0 THEN t ELSE Applied(edits[i], after[i - 1])
  IN after[Len(edits)]
OnChange ==
  /\ Handle("change") /\ UNCHANGED <<loaded, away>>
  /\ LET m == Head(inbox)
         base == IF cache[m.uri] = None THEN Garbage ELSE cache[m.uri].text
         new == Apply(m.edits, base)
     IN /\ document' = [document EXCEPT ![m.uri] = Copy(m.ver, m.edits[Len(m.edits)].to)]
        /\ \/ Update(m.uri, m.ver, new) /\ Publish(m.uri)
           \/ new = Garbage /\ UNCHANGED <<cache, tree, over, shown>>
OnCloseKeeps ==
  /\ Handle("close") /\ UNCHANGED <<cache, tree, loaded, shown, away, over>>
  /\ LET u == Head(inbox).uri IN document' = [document EXCEPT ![u] = None]
OnClose ==
  /\ Handle("close") /\ UNCHANGED <<loaded, shown, away>>
  /\ LET u == Head(inbox).uri IN
     /\ document' = [document EXCEPT ![u] = None] /\ cache' = [cache EXCEPT ![u] = None]
     /\ tree' = [tree EXCEPT ![u] = None] /\ over' = over \ {u}
(* Of a closed document the library reads the file, and its version counts as 0. *)
OnAsk ==
  /\ Handle("ask") /\ UNCHANGED <<document, loaded, shown, away>>
  /\ LET u == Head(inbox).uri
         d == IF document[u] = None THEN Copy(0, disk[u]) ELSE document[u]
     IN Update(u, d.ver, d.text)

Next ==
  \/ \E u \in Uris : Open(u) \/ Change(u) \/ Close(u) \/ Ask(u) \/ Write(u)
  \/ Notify \/ Watch
  \/ OnInitialized \/ OnWatched \/ OnOpen \/ OnChange \/ OnClose \/ OnAsk
Spec == Init /\ [][Next]_vars

(* -------------------------------------------------------------- properties *)
(* The text that the next range edit of an open document is applied to is the
   document as the editor has it, and the editor's buffer once all its messages
   are handled, unless the document was asked about while it was closed and then
   opened with the version 0 that a closed one counts as.  The diagnostics on the
   screen are of the tree that requests are answered from.  That tree is of the
   document's text when it was parsed from nothing, as at the opening; parsed over
   the tree of an older text, as after every change, it need not be. *)
TreeIsOfBuffer ==
  \A u \in Uris \ away :
    /\ document[u] # None =>
         /\ cache[u] = document[u] /\ shown[u].text = tree[u]
         /\ u \notin over => tree[u] = document[u].text
    /\ (\A i \in DOMAIN inbox : inbox[i].kind \in {"ask", "watched", "initialized"}) =>
         document[u] = buffer[u]

(* Once the editor watches the files and has reported their changes, what
   completion and hover read is what the files say, or nothing when they do not
   evaluate: no evaluator of older files outlives a failed reload. A change made
   after the first load and before the editor watched is found at the next. *)
EvaluatorCatchesUp ==
  watcher = "on" /\ ~missed /\ ~changed
    /\ (\A i \in DOMAIN inbox : inbox[i].kind # "watched") =>
       IF Broken(disk) THEN evaluator = None /\ failed = disk
       ELSE evaluator = disk /\ failed = None
==============================================================================
