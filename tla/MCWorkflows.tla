---------------------------- MODULE MCWorkflows ----------------------------
(***************************************************************************)
(* Two users, up to two rows from earlier, in every ownership and order of *)
(* stamps, and two requests of any kind: a path may be built while an      *)
(* assessment is running, from one's own or with the id of another's, and  *)
(* one resume may be edited twice at once.  One stream with a queue of one *)
(* event.  The edits: each column alone, and a blank title with a content  *)
(* as it was.                                                              *)
(***************************************************************************)
EXTENDS Workflows

MCUsers == {"u1", "u2"}
MCMaxSeq == [u \in MCUsers |-> 2]
MCTexts == {"draft", "edited"}
MCEdits == {[title |-> "edited"], [content |-> "edited"],
            [title |-> " ", content |-> "draft"]}
=============================================================================
