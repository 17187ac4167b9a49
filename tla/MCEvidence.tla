----------------------------- MODULE MCEvidence -----------------------------
(***************************************************************************)
(* Small instances of the two ends of a wait for evidence: the long poll   *)
(* at the broker and the tool call at the MCP server.  They have no state  *)
(* in common, and a behaviour is one of the one or of the other.           *)
(***************************************************************************)
EXTENDS LongPoll, McpTools

VARIABLE part

all == <<vars, mvars, part>>
MCInit == /\ Init /\ McpInit
          /\ part \in {"broker", "mcp"}
          /\ part = "broker" => commit = "none"
          /\ part = "mcp" => \A r, s \in Request : polls.target[r] = polls.target[s]
MCNext == \/ part = "broker" /\ Next /\ UNCHANGED <<mvars, part>>
          \/ part = "mcp" /\ McpNext /\ UNCHANGED <<vars, part>>
MCSpec == MCInit /\ [][MCNext]_all

\* The actions of the part that is not chosen are never enabled.
MCLiveSpec ==
    /\ MCSpec
    /\ \A r \in Request : WF_vars(Timeout(r)) /\ WF_vars(Resume(r))
    /\ McpFairness
=============================================================================
