-------------------------- MODULE LanguageServer --------------------------
(***************************************************************************)
(* One session of `lnpl lsp` (lsp.py): an editor and the server exchange   *)
(* messages over two ordered streams, neither waiting for the other.  The  *)
(* server compiles a document whenever it is opened or changed and pushes  *)
(* its diagnostics; a quick fix is an edit computed from diagnostics.      *)
(*                                                                         *)
(* Diagnostics are named by the text they are of: what matters is whose    *)
(* they are.  The editor keeps to the protocol for documents, and may send *)
(* requests at any time.                                                   *)
(***************************************************************************)
EXTENDS Naturals, Sequences

CONSTANTS
  Uris, Texts,
  Fixable,         \* texts with an unknown verb for which there is a suggestion
  NoText,
  MaxSent          \* bound: messages the editor sends

LspAssumption ==
  /\ Fixable \subseteq Texts /\ NoText \notin Texts /\ MaxSent \in Nat

VARIABLES
  lspState,        \* `state`, or how the process exited
  literals,        \* `literal_support`
  documents,       \* `documents`: uri -> the text the server holds
  toServer, toEditor,   \* the two streams
  sent,            \* messages sent by the editor
  held,            \* uri -> the editor's text, NoText when closed
  shown,           \* uri -> the text the diagnostics it shows are of
  ready,           \* the editor's view: "new", "asked", "ready", "leaving"
  owed,            \* answers the editor waits for
  misfits          \* fixes and hovers received for another text than the editor's (history)

serverVars == <<lspState, literals, documents>>
editorVars == <<held, shown, ready, misfits>>
lspVars == <<serverVars, toServer, toEditor, sent, editorVars, owed>>

Exited == {"exit 0", "exit 1"}
Alive == lspState \notin Exited

Init ==
  /\ lspState = "uninitialized" /\ literals = FALSE
  /\ documents = [u \in Uris |-> NoText]
  /\ toServer = <<>> /\ toEditor = <<>> /\ sent = 0
  /\ held = [u \in Uris |-> NoText] /\ shown = [u \in Uris |-> NoText]
  /\ ready = "new" /\ owed = 0 /\ misfits = {}

---------------------------------------------------------------------------
(* The editor. *)

Sends(message, answers) ==
  /\ sent < MaxSent /\ sent' = sent + 1
  /\ toServer' = Append(toServer, message)
  /\ owed' = owed + answers
  /\ UNCHANGED <<serverVars, toEditor, shown, misfits>>

AskInitialize ==
  /\ ready = "new" /\ ready' = "asked"
  /\ \E able \in BOOLEAN : Sends([method |-> "initialize", literals |-> able], 1)
  /\ UNCHANGED held

(* didOpen and didChange carry the whole text. *)
Edit(u, t) ==
  /\ ready = "ready" /\ held[u] # t
  /\ held' = [held EXCEPT ![u] = t]
  /\ Sends([method |-> "text", uri |-> u, text |-> t], 0)
  /\ UNCHANGED ready

CloseDocument(u) ==
  /\ ready = "ready" /\ held[u] # NoText
  /\ held' = [held EXCEPT ![u] = NoText]
  /\ Sends([method |-> "close", uri |-> u], 0)
  /\ UNCHANGED ready

(* textDocument/codeAction: with the diagnostics the editor shows, whose    *)
(* `data` it may have kept or not, or with a range alone.                   *)
AskFixes(u) ==
  /\ \E given \in {shown[u], NoText}, data \in BOOLEAN :
       /\ given = NoText => data
       /\ Sends([method |-> "codeAction", uri |-> u, given |-> given, data |-> data,
                 of |-> held[u], stale |-> given \notin {held[u], NoText}], 1)
  /\ UNCHANGED <<held, ready>>

(* textDocument/hover. *)
AskHover(u) ==
  /\ Sends([method |-> "hover", uri |-> u, of |-> held[u]], 1)
  /\ UNCHANGED <<held, ready>>

AskShutdown ==
  /\ ready = "ready" /\ ready' = "leaving"
  /\ Sends([method |-> "shutdown"], 1)
  /\ UNCHANGED held

(* `exit`, or the end of the stream. *)
Leave ==
  /\ \E method \in {"exit", "end of input"} : Sends([method |-> method], 0)
  /\ ready' = "leaving" /\ UNCHANGED held

---------------------------------------------------------------------------
(* The server: run() reads a message and handles it before the next. *)

Reads(methods) ==
  /\ Alive /\ toServer # <<>> /\ Head(toServer).method \in methods
  /\ toServer' = Tail(toServer)
  /\ UNCHANGED <<sent, editorVars, owed>>

Writes(message) == toEditor' = Append(toEditor, message)
Publishes(u, t) == Writes([kind |-> "publish", uri |-> u, of |-> t])
Result == [kind |-> "result"]
Error == [kind |-> "error"]

(* Requests the server refuses: before `initialize`, and after `shutdown`. *)
Refuse ==
  /\ Reads({"initialize", "codeAction", "hover", "shutdown"})
  /\ \/ lspState = "uninitialized" /\ Head(toServer).method # "initialize"
     \/ lspState = "shutdown"
     \/ lspState = "initialized" /\ Head(toServer).method = "initialize"
  /\ Writes(Error) /\ UNCHANGED serverVars

Initialize ==
  /\ Reads({"initialize"}) /\ lspState = "uninitialized"
  /\ lspState' = "initialized" /\ literals' = Head(toServer).literals
  /\ Writes([kind |-> "ready"]) /\ UNCHANGED documents

(* A notification outside the session is dropped. *)
Ignore ==
  /\ Reads({"text", "close"}) /\ lspState \in {"uninitialized", "shutdown"}
  /\ UNCHANGED <<serverVars, toEditor>>

(* _publish. *)
DidChange ==
  /\ Reads({"text"}) /\ lspState = "initialized"
  /\ documents' = [documents EXCEPT ![Head(toServer).uri] = Head(toServer).text]
  /\ Publishes(Head(toServer).uri, Head(toServer).text)
  /\ UNCHANGED <<lspState, literals>>

(* Mutant: the diagnostics of a closed document are not taken back. *)
DidCloseQuietly ==
  /\ Reads({"close"}) /\ lspState = "initialized"
  /\ documents' = [documents EXCEPT ![Head(toServer).uri] = NoText]
  /\ UNCHANGED <<lspState, literals, toEditor>>

DidClose ==
  /\ Reads({"close"}) /\ lspState = "initialized"
  /\ documents' = [documents EXCEPT ![Head(toServer).uri] = NoText]
  /\ Publishes(Head(toServer).uri, NoText)
  /\ UNCHANGED <<lspState, literals>>

(* The text a fix is for: the one the given diagnostics are of when they    *)
(* bring their `data`, else the one the server holds.                       *)
FixedText(ask) ==
  IF ask.given = NoText \/ ~ask.data THEN documents[ask.uri] ELSE ask.given

(* _code_action.  Given without `data`, a diagnostic is looked up by its    *)
(* range, which one of another text may or may not share.                   *)
CodeAction ==
  /\ Reads({"codeAction"}) /\ lspState = "initialized"
  /\ LET ask == Head(toServer)
         fix == FixedText(ask)
         none == ~literals \/ documents[ask.uri] = NoText \/ fix \notin Fixable
     IN  \/ none /\ Writes(Result)
         \/ ~none /\ Writes([kind |-> "fix", uri |-> ask.uri, to |-> fix, of |-> ask.of,
                             stale |-> ask.stale /\ ask.data])
         \/ ~none /\ ~ask.data /\ ask.given # fix /\ Writes(Result)
  /\ UNCHANGED serverVars

(* _hover: what it says is about the text the server holds. *)
Hover ==
  /\ Reads({"hover"}) /\ lspState = "initialized"
  /\ LET ask == Head(toServer)
     IN  \/ Writes(Result)
         \/ /\ documents[ask.uri] # NoText
            /\ Writes([kind |-> "fact", uri |-> ask.uri, to |-> documents[ask.uri],
                       of |-> ask.of, stale |-> FALSE])
  /\ UNCHANGED serverVars

Shutdown ==
  /\ Reads({"shutdown"}) /\ lspState = "initialized"
  /\ lspState' = "shutdown" /\ Writes(Result)
  /\ UNCHANGED <<literals, documents>>

Exit ==
  /\ Reads({"exit", "end of input"})
  /\ lspState' = IF lspState = "shutdown" THEN "exit 0" ELSE "exit 1"
  /\ UNCHANGED <<literals, documents, toEditor>>

---------------------------------------------------------------------------
(* The editor takes what it is sent. *)
Receive ==
  /\ toEditor # <<>> /\ toEditor' = Tail(toEditor)
  /\ LET got == Head(toEditor)
     IN  /\ owed' = IF got.kind = "publish" THEN owed ELSE owed - 1
         /\ shown' = IF got.kind = "publish" THEN [shown EXCEPT ![got.uri] = got.of] ELSE shown
         /\ ready' = IF got.kind = "ready" /\ ready = "asked" THEN "ready" ELSE ready
         /\ misfits' = IF got.kind \in {"fix", "fact"} /\ held[got.uri] = got.of /\ got.to # got.of
                       THEN misfits \cup {got.stale} ELSE misfits
  /\ UNCHANGED <<serverVars, toServer, sent, held>>

Next ==
  \/ AskInitialize \/ AskShutdown \/ Leave \/ Receive
  \/ \E u \in Uris : (\E t \in Texts : Edit(u, t)) \/ CloseDocument(u) \/ AskFixes(u) \/ AskHover(u)
  \/ Refuse \/ Initialize \/ Ignore \/ DidChange \/ DidClose \/ CodeAction \/ Hover \/ Shutdown \/ Exit

Spec == Init /\ [][Next]_lspVars

---------------------------------------------------------------------------
Quiet == Alive /\ toServer = <<>> /\ toEditor = <<>>

(* Once both streams are empty the editor shows, for every open document,    *)
(* the diagnostics of the text it holds, none for a closed one, and waits    *)
(* for no answer (_publish, _did_close, _dispatch).  A fix or a hover that    *)
(* does not fit the text the editor asked about and still holds was made of  *)
(* diagnostics that the editor itself sent, already out of date.             *)
EditorAgrees ==
  /\ Quiet => owed = 0 /\ shown = held
  /\ FALSE \notin misfits

============================================================================
