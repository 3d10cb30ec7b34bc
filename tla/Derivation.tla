----------------------------- MODULE Derivation -----------------------------
(***************************************************************************)
(* Leftmost derivations in a context-free grammar, one after the other:    *)
(* what the random sentence generator promises.                            *)
(***************************************************************************)
EXTENDS Naturals, Sequences, SequencesExt, FiniteSetsExt

CONSTANTS Nonterminal, START_NON_TERM

VARIABLES grammarFile,  \* a sequence of definitions <<nonterminal, expansions>>
          form          \* the sentential form derived so far

\* The expansions that the last definition of n in the file gives.
Expansions(n) ==
    LET defs == {k \in DOMAIN grammarFile : grammarFile[k][1] = n}
    IN  IF defs = {} THEN {} ELSE grammarFile[Max(defs)][2]

Left == {k \in DOMAIN form : form[k] \in Nonterminal}

Begin == /\ Left = {}
         /\ form' \in Expansions(START_NON_TERM)
         /\ UNCHANGED grammarFile

Derive == /\ Left # {}
          /\ LET k == Min(Left)
             IN  \E e \in Expansions(form[k]) :
                    form' = SubSeq(form, 1, k - 1) \o e \o SubSeq(form, k + 1, Len(form))
          /\ UNCHANGED grammarFile

Derivations == form = <<>> /\ [][Begin \/ Derive]_<<grammarFile, form>>
=============================================================================
