--------------------------------- MODULE Rsg ---------------------------------
(***************************************************************************)
(* rsg.cc: reads a grammar and prints VERSION_NUMBER texts.  dfs calls     *)
(* itself for each nonterminal of the production it has picked; a call is  *)
(* here the tokens of its production that it has still to visit.  The      *)
(* classes Production and Definition, which are not in the repository, are *)
(* a sequence of tokens and the set of productions to pick from.           *)
(***************************************************************************)
EXTENDS Naturals, Sequences, SequencesExt

CONSTANTS Nonterminal, START_NON_TERM,
          GrammarFiles,    \* sequences of <<nonterminal, productions>>
          VERSION_NUMBER,
          MaxTokens        \* bound: tokens written or waiting in calls

\* A grammar without the start symbol is not properly formatted: nothing
\* checks it, and grammar["<start>"] would pick from no productions.
ASSUME GrammarAssumption ==
    \A g \in GrammarFiles :
        /\ g \in Seq(ToSet(g))
        /\ \A k \in DOMAIN g : \A prod \in g[k][2] : prod \in Seq(ToSet(prod))
        /\ \E k \in DOMAIN g : g[k][1] = START_NON_TERM

VARIABLES grammarFile,
          definitions,   \* how many definitions have been read
          grammar,
          visits,        \* the calls of dfs, the innermost last
          text,
          count,         \* texts printed
          aborted        \* has an assertion failed?

rsgVars == <<grammarFile, definitions, grammar, visits, text, count, aborted>>

RsgInit == /\ grammarFile \in GrammarFiles
           /\ definitions = 0
           /\ grammar = <<>>
           /\ visits = <<>>
           /\ text = <<>>
           /\ count = 0
           /\ aborted = FALSE

AllRead == definitions = Len(grammarFile)

\* Mutant: map::insert, which keeps the definition that is there.
InsertedFirst(def) == [n \in DOMAIN grammar \cup {def[1]} |->
                         IF n \in DOMAIN grammar THEN grammar[n] ELSE def[2]]
Inserted(def) == [n \in DOMAIN grammar \cup {def[1]} |->
                    IF n = def[1] THEN def[2] ELSE grammar[n]]

\* One turn of the loop of readGrammar.
ReadGrammar == /\ ~AllRead
               /\ definitions' = definitions + 1
               /\ grammar' = Inserted(grammarFile[definitions + 1])
               /\ UNCHANGED <<grammarFile, visits, text, count, aborted>>

\* The tokens that the calls have still to visit, the innermost call first.
ToVisit ==
    LET rest[n \in 0..Len(visits)] == IF n = 0 THEN <<>> ELSE visits[n] \o rest[n - 1]
    IN  rest[Len(visits)]

\* dfs is called and picks a production at random.
Dfs(frames, nonTerm) ==
    \E prod \in grammar[nonTerm] :
        /\ Len(text) + Len(ToVisit) + Len(prod) <= MaxTokens
        /\ visits' = Append(frames, prod)

\* makeText, with a new vector.
MakeText == /\ AllRead /\ visits = <<>> /\ count < VERSION_NUMBER /\ ~aborted
            /\ text' = <<>>
            /\ \E prod \in grammar[START_NON_TERM] : visits' = <<prod>>
            /\ UNCHANGED <<grammarFile, definitions, grammar, count, aborted>>

IsTerminal(token) == token \notin Nonterminal
CheckNonTerminalValidity(nonTerm) == nonTerm \in DOMAIN grammar

\* The loop of the innermost dfs: a terminal is written, a nonterminal is
\* looked up, which aborts if there is none, and visited.
VisitToken ==
    /\ visits # <<>> /\ Last(visits) # <<>> /\ ~aborted
    /\ LET token == Head(Last(visits))
           frames == [visits EXCEPT ![Len(visits)] = Tail(@)]
       IN  \/ /\ IsTerminal(token)
              /\ text' = Append(text, token)
              /\ visits' = frames
              /\ UNCHANGED aborted
           \/ /\ ~IsTerminal(token) /\ ~CheckNonTerminalValidity(token)
              /\ aborted' = TRUE
              /\ UNCHANGED <<text, visits>>
           \/ /\ ~IsTerminal(token) /\ CheckNonTerminalValidity(token)
              /\ Dfs(frames, token)
              /\ UNCHANGED <<text, aborted>>
    /\ UNCHANGED <<grammarFile, definitions, grammar, count>>

\* dfs returns; after the outermost call main prints the text.
DfsReturn == /\ visits # <<>> /\ Last(visits) = <<>>
             /\ visits' = Front(visits)
             /\ count' = IF Len(visits) = 1 THEN count + 1 ELSE count
             /\ UNCHANGED <<grammarFile, definitions, grammar, text, aborted>>

RsgNext == ReadGrammar \/ MakeText \/ VisitToken \/ DfsReturn

RsgSpec == RsgInit /\ [][RsgNext]_rsgVars

-----------------------------------------------------------------------------
Sentences == INSTANCE Derivation WITH form <- text \o ToVisit

\* What is written, followed by what the calls have still to visit, is at
\* every moment a sentential form of the grammar in the file: each step leaves
\* it as it is or replaces its leftmost nonterminal by an expansion of the
\* last definition of it, and each text begins anew (readGrammar, dfs,
\* makeText).
DerivesText == Sentences!Derivations
=============================================================================
