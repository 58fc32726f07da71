------------------------------- MODULE MCServers -------------------------------
(* The two servers, each in a behaviour of its own: the HTTP API with a few
   requests, and the language server with two documents, three texts and three
   messages. *)
EXTENDS ApiServer, TLC

CONSTANTS r1, r2, r3, Uris, FirstVersions, Bad, Garbage, None, MaxTexts, MaxSends, MaxAway

VARIABLES part, disk, buffer, texts, sends, inbox, document, cache, tree, evaluator, failed,
          shown, watcher, changed, missed, away, over
lspVars == <<disk, buffer, texts, sends, inbox, document, cache, tree, evaluator, failed,
             shown, watcher, changed, missed, away, over>>

L == INSTANCE LanguageServer

\* A closed document is none of the open ones, and a text that was not written
\* none of the written ones.
ASSUME EditorConstantsOK ==
  /\ FirstVersions \subseteq Nat /\ None \notin Nat /\ Garbage \notin Nat
  /\ None \notin [ver : Nat, text : Nat \cup {Garbage}]

Request(e, i, n) == [endpoint |-> e, id |-> i, targets |-> n]

(* Two stage requests under one id or two; two verbatim commands, or one beside an
   execute; a stream beside an execute of two targets; three commands that are only
   recorded. *)
MCPlans == {(r1 :> Request("stage", 1, 1)) @@ (r2 :> Request("stage", i, 1)) : i \in {1, 2}}
   \union {(r1 :> Request("verbatim", 1, 2)) @@ (r2 :> Request(e, 2, 1)) : e \in {"verbatim", "execute"}}
   \union {(r1 :> Request("stream", 1, 1)) @@ (r2 :> Request("execute", 2, 2))}
   \union {[r \in {r1, r2, r3} |-> Request("execute", 1, 0)]}

MCInit ==
  /\ part \in {"http", "lsp"} /\ Init /\ L!Init
  /\ part # "http" => plan = CHOOSE p \in MCPlans : TRUE
  /\ part # "lsp" => disk = [u \in Uris |-> 0]
MCNext ==
  /\ UNCHANGED part
  /\ \/ part = "http" /\ Next /\ UNCHANGED lspVars
     \/ part = "lsp" /\ L!Next /\ UNCHANGED vars
MCSpec == MCInit /\ [][MCNext]_<<part, vars, lspVars>>

(* The properties of LanguageServer. *)
TreeIsOfBuffer == L!TreeIsOfBuffer
EvaluatorCatchesUp == L!EvaluatorCatchesUp
================================================================================
