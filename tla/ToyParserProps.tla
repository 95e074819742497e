--------------------------- MODULE ToyParserProps ---------------------------
(***************************************************************************)
(* Someone writes a program down as tokens, or just some tokens, and the    *)
(* parser reads them: what it guarantees.                                   *)
(***************************************************************************)
EXTENDS ToyParser

CONSTANT Programs   \* sequences of definitions

VARIABLE source     \* the program that is written down, if any

Verdict == CASE status = "parsing"  -> [verdict |-> "pending"]
             [] status = "rejected" -> [verdict |-> "rejected"]
             [] status = "accepted" -> [verdict |-> "accepted", defs |-> defs,
                                        structs |-> structs, functions |-> functions]

\* The written grammar, and with the liberties that the parser allows.
Documented == INSTANCE ToyGrammar WITH Tolerant <- FALSE, answer <- Verdict
Grammar    == INSTANCE ToyGrammar WITH Tolerant <- TRUE, answer <- Verdict

ReadInit ==
  /\ \/ \E p \in Programs : source = <<p>> /\ tokens \in Grammar!ProgramTexts(p)
     \/ source = << >> /\ tokens \in Inputs
  /\ Start

ReadSpec ==
  /\ ReadInit
  /\ [][Next /\ UNCHANGED source]_<<state, source>>
  /\ WF_state(Next /\ UNCHANGED source)

(* A program that is written down, in the written grammar or with any of the *)
(* liberties ToyGrammar lists, is read as itself, and the registry has the   *)
(* last definition of each name; what else is accepted is a text, with no    *)
(* other liberties, of the very definitions it is accepted as.  Code: the    *)
(* parser never looks back, so each choice has to be right by the one token  *)
(* it peeks at.                                                             *)
ReadsTheGrammar == Grammar!Spec

(* Every parse ends, also of a text that breaks off anywhere: at Eof every   *)
(* loop stops, although consume no longer advances.                          *)
ParseEnds == <>(status # "parsing")

-----------------------------------------------------------------------------
(* A statement of the documents that the parser does not keep.               *)

(* implemented.md:304, "the grammar it handles": what is accepted is a text   *)
(* of the written grammar.                                                  *)
AcceptsOnlyTheGrammar ==
  status = "accepted" => tokens \in Documented!ProgramTexts(defs)
=============================================================================
