------------------------------- MODULE McpServer -------------------------------
(***************************************************************************)
(* The MCP server over its backend: crates/cgrx-mcp/src/tools.rs, and the  *)
(* tools of crates/cgrx-cli/src/mcp_backend.rs that McpBackend leaves out. *)
(* A frame that is no call of a tool of the active toolset is answered at  *)
(* once; a call refreshes the backend first.  A client pages through a     *)
(* search under the snapshot of its first page; a risk scan compares the   *)
(* graph with a baseline that is read from CURRENT once and kept.  Other   *)
(* processes serve the same repository and move CURRENT.                   *)
(***************************************************************************)
EXTENDS McpBackend, Responses

CONSTANTS
  Tools,   \* the names clients call
  Toolset, \* those that the active toolset exposes
  Arms     \* those that call_tool knows

ASSUME ToolsAssumption == Toolset \subseteq Tools /\ Arms \subseteq Tools

VARIABLES
  pages,    \* the pages a client has of one search, or None
  baseline, \* risk_baseline: of which revision, and its tree, or None
  scan,     \* what the last call found of the risks, or None
  strayed   \* CURRENT moved, and this runtime did not open it

serverVars == <<pages, baseline, scan, strayed>>
server == <<allVars, serverVars>>

(* Tools that read the refreshed graph and keep nothing. *)
Readers == Tools \ {"orient", "expand", "search_graph", "scan_risks", "ingest_runtime_evidence"}

ServerInit ==
  /\ Init
  /\ pages = None
  /\ baseline = None
  /\ scan = None
  /\ strayed = FALSE

-----------------------------------------------------------------------------
(* Frames *)

Methods == {"initialize", "tools/list", "tools/call", "other"}
Frames == [parsed : BOOLEAN, id : BOOLEAN, current : BOOLEAN, method : Methods,
           tool : Tools, valid : BOOLEAN]

(* dispatch_line, dispatch and call_tool up to the arm of the tool: the    *)
(* first check that fails decides.  A frame without an id has no answer.   *)
Dispatched(f) ==
  CASE ~f.parsed -> "parse_error"
    [] f.parsed /\ ~f.id -> "none"
    [] f.parsed /\ f.id /\ ~f.current -> "invalid_request"
    [] f.parsed /\ f.id /\ f.current /\ f.method = "other" -> "method_not_found"
    [] f.parsed /\ f.id /\ f.current /\ f.method \in {"initialize", "tools/list"} -> "result"
    [] OTHER -> IF f.tool \notin Toolset \cap Arms THEN "tool_not_found"
                ELSE IF ~f.valid THEN "invalid_arguments" ELSE "call"

(* The tools a frame can reach.  Any other frame is answered at once and   *)
(* changes nothing; ingest_runtime_evidence imports into the graph as it   *)
(* is, without a refresh.                                                  *)
Callable == {f.tool : f \in {g \in Frames : Dispatched(g) = "call"}}

(* The client asks for the next page only under the snapshot of the first. *)
Begin ==
  /\ \/ {"orient", "expand"} \subseteq Callable /\ RequestCapsule
     \/ /\ pages # None
        /\ "search_graph" \in Callable
        /\ Request([tool |-> "search_graph", expected |-> TRUE])
     \/ \E t \in Callable \ {"orient", "expand", "ingest_runtime_evidence"} :
          Request([tool |-> t, expected |-> FALSE])
  /\ scan' = None
  /\ UNCHANGED <<pages, baseline, strayed>>

-----------------------------------------------------------------------------
(* The backend *)

(* A faulty Kept: the baseline outlives its revision. *)
KeptAlways == baseline

(* A new revision drops the baseline. *)
Kept == IF stage = "open" THEN None ELSE baseline

(* The refresh, the re-index, and orient and expand.                       *)
ServeBackend ==
  /\ Serve
  /\ baseline' = Kept
  /\ strayed' = (strayed \/ (stage = "open" /\ rt' = rt))
  /\ UNCHANGED <<pages, scan>>

Called(tool) == stage = "answer" /\ request \in [tool : {tool}, expected : BOOLEAN]

AnswerReader(tool) ==
  /\ Called(tool)
  /\ Reply
  /\ UNCHANGED <<vars, revision, listing, store, caches, pages, baseline, scan, strayed>>

(* A faulty SameSearch: the snapshot of a page names its revision only. *)
SameSearchOfRevision(of) == of.rev = rt.snapshot.rev

SameSearch(of) == of = rt.snapshot

(* The page is made first and refused after if its snapshot is not the     *)
(* expected one: the client starts over.  sure says that no refresh of the *)
(* graph had failed when a page was made.                                  *)
AnswerSearch ==
  /\ Called("search_graph")
  /\ \/ /\ ~request.expected
        /\ pages' = [of |-> rt.snapshot, files |-> {rt.hashes}, sure |-> ~failed]
     \/ /\ request.expected
        /\ SameSearch(pages.of)
        /\ pages' = [pages EXCEPT !.files = @ \cup {rt.hashes}, !.sure = @ /\ ~failed]
     \/ /\ request.expected
        /\ ~SameSearch(pages.of)
        /\ pages' = None
  /\ Reply
  /\ UNCHANGED <<vars, revision, listing, store, caches, baseline, scan, strayed>>

(* The baseline of another revision is refused, and so is a HEAD that has  *)
(* moved since the refresh.                                                *)
AnswerScan ==
  LET base == IF baseline # None THEN baseline ELSE [rev |-> current, tree |-> generation[current]]
  IN
  /\ Called("scan_risks")
  /\ baseline' = base
  /\ scan' = IF base.rev # rt.snapshot.rev THEN [outcome |-> "stale", tree |-> None]
             ELSE IF head # rt.snapshot.rev THEN [outcome |-> "moved", tree |-> None]
             ELSE [outcome |-> "compared", tree |-> base.tree]
  /\ Reply
  /\ UNCHANGED <<vars, revision, listing, store, caches, pages, strayed>>

-----------------------------------------------------------------------------
(* Elsewhere *)

(* Another process indexes HEAD. *)
OtherProcess ==
  /\ current # head
  /\ generation[head] \in {None, Committed[head]}
  /\ generation' = [generation EXCEPT ![head] = Committed[head]]
  /\ current' = head
  /\ strayed' = TRUE
  /\ UNCHANGED <<vars, stage, request, revision, listing, caches, pages, baseline, scan>>

ServerNext ==
  \/ Begin
  \/ ServeBackend
  \/ AnswerSearch \/ AnswerScan
  \/ \E t \in Readers : AnswerReader(t)
  \/ Elsewhere /\ UNCHANGED serverVars
  \/ OtherProcess

ServerSpec == ServerInit /\ [][ServerNext]_server

-----------------------------------------------------------------------------
(* Properties *)

(* The pages a client collects under the snapshot of the first are pages   *)
(* of one graph, however the files and HEAD changed in between, where no   *)
(* refresh failed.                                                         *)
PagesAreOfOneGraph == pages # None /\ pages.sure => Cardinality(pages.files) = 1

(* A scan compares the graph with the very commit it was built on; and it  *)
(* is refused for a baseline of another revision, which no retry mends,    *)
(* only if CURRENT was moved to a revision that this runtime did not open. *)
ScansAreOfHead ==
  scan # None =>
    /\ scan.outcome = "compared" => scan.tree = rt.base
    /\ scan.outcome = "stale" => strayed

(* Docs (README.md:349, docs/search-discovery.md:46, agent-usage.md:45):   *)
(* compact answers keep what they promise and a count tells of a cut.      *)
(* Whenever an answer is made, whatever tool it is of, the model that gets *)
(* its visible form alone reads the items of the structured one, learns    *)
(* where some are missing, and hears of the gaps.                          *)
VisibleAnswersAreTrue == stage = "answer" => DOMAIN ListsOf \subseteq Truthful

=============================================================================
