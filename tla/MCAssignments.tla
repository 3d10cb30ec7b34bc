--------------------------- MODULE MCAssignments ---------------------------
(***************************************************************************)
(* The programs of the other assignments for TLC, one of them in each      *)
(* behaviour: they share nothing, and the variables of those that do not   *)
(* run keep a value.                                                       *)
(***************************************************************************)
EXTENDS SequentialAggregator, TSContainers, SixDegrees, Rsg, Align, WhereAmI

VARIABLE program

allVars == <<program, aggVars, tsVars, sixVars, rsgVars, alignVars, whereVars>>

Programs == {"parser", "aggregator", "containers", "imdb-test", "six-degrees", "rsg",
             "align", "where-am-i"}

-----------------------------------------------------------------------------
(* assignment 4: two feeds, four articles on two servers, and redirects     *)
(* between them that go in circles                                          *)

El(name, inside) == <<Event("start", name)>> \o inside \o <<Event("end", name)>>
Chars(pieces)    == [n \in DOMAIN pieces |-> Event("text", pieces[n])]
Item(title, link) == El("item", El("title", Chars(title)) \o El("link", Chars(link)))

A  == <<"a">>
A2 == <<"a", "2">>
C  == <<"c">>
D  == <<"d">>
F1 == <<"f1">>
F2 == <<"f2">>

MCFeedsFile == <<F1, F2>>
MCDocument ==
    F1 :> Item(<<"t">>, A) \o Item(<<"t">>, A2) \o Item(<<"s">>, D) @@
    F2 :> El("title", Chars(<<"n">>)) \o Item(<<"s">>, A)
            \o El("item", El("title", Chars(<<"u">>))) \o Item(<<"t">>, D)
MCStopWordsFile == <<"the", "a", "the">>
MCArticles == {A, A2, C, D}
MCServerOf == A :> "h" @@ A2 :> "h" @@ C :> "g" @@ D :> "g"
Elsewhere(u) == <<"moved", u>>
MCAnswers ==
    F1 :> {<<"ok">>, <<"no">>, Elsewhere(F2)} @@ F2 :> {<<"ok">>, Elsewhere(F1)} @@
    A  :> {<<"ok">>, <<"no">>, Elsewhere(A2), Elsewhere(D)} @@ A2 :> {<<"ok">>} @@
    C  :> {<<"ok">>, Elsewhere(A)} @@ D  :> {Elsewhere(A), Elsewhere(C)}
MCText == A :> <<"x", "y", "x">> @@ A2 :> <<"x">> @@
          C :> <<"the", "y", "?", "y">> @@ D :> <<"x">>

-----------------------------------------------------------------------------
(* assignments 2, 1 and 6 *)

\* Names and titles of all lengths modulo four, two films of one title.
MCFilm == {<<5, 1950>>, <<5, 1999>>, <<6, 1970>>}
MCNameLength == 1 :> 3 @@ 2 :> 4 @@ 3 :> 5 @@ 4 :> 6 @@ 5 :> 2 @@ 6 :> 5
MCCasts == [MCFilm -> {c \in SUBSET Player : Cardinality(c) \in {0, 2, 3}}]

\* Recursive; defined twice and with a nonterminal that is not defined.
MCGrammarFiles ==
    { << <<"<start>", {<<"a", "<np>", "<vp>">>, <<>>}>>,
         <<"<np>", {<<"n">>, <<"b", "<np>">>}>>,
         <<"<vp>", {<<"<np>">>, <<"v", "<np>">>}>> >>,
      << <<"<np>", {<<"x">>}>>,
         <<"<start>", {<<"<np>", "<vp>">>, <<"<np>", "<pp>">>}>>,
         <<"<vp>", {<<"v">>}>>,
         <<"<np>", {<<"n">>}>> >> }

MCSame(a, b) == a % 2 = b % 2

-----------------------------------------------------------------------------
MCInit ==
    /\ program \in Programs
    /\ FeedInit /\ (program # "parser" => ~keeps) /\ Unstarted
    /\ TSInit
    /\ IF program \in {"imdb-test", "six-degrees"} THEN cast \in Casts
       ELSE cast = [f \in Film |-> {}]
    /\ Opened /\ Asking
    /\ RsgInit /\ (program # "rsg" => Len(grammarFile) = 3)
    /\ AlignInit
    /\ WhereInit

AggregatorRuns == program = "aggregator" /\ AggNext
ThreadRuns(t)  == program = "containers" /\ Step(t)

MCNext ==
    /\ UNCHANGED program
    /\ \/ /\ program = "parser" /\ FeedNext
          /\ UNCHANGED <<stop, nextFeed, calls, indexed, idx, tally, tsVars, sixVars, rsgVars, alignVars, whereVars>>
       \/ /\ AggregatorRuns
          /\ UNCHANGED <<tsVars, sixVars, rsgVars, alignVars, whereVars>>
       \/ /\ program = "containers" /\ TSNext
          /\ UNCHANGED <<aggVars, sixVars, rsgVars, alignVars, whereVars>>
       \/ /\ program = "imdb-test"
          /\ \E player \in Player : QueryForActors(player)
          /\ UNCHANGED <<asked, q, seenActors, seenMovies, answer, aggVars, tsVars, rsgVars, alignVars, whereVars>>
       \/ /\ program = "six-degrees" /\ SixNext
          /\ UNCHANGED <<aggVars, tsVars, rsgVars, alignVars, whereVars>>
       \/ /\ program = "rsg" /\ RsgNext
          /\ UNCHANGED <<aggVars, tsVars, sixVars, alignVars, whereVars>>
       \/ /\ program = "align"
          /\ \E s, t \in Strands : FindAndPrint(s, t)
          /\ UNCHANGED <<aggVars, tsVars, sixVars, rsgVars, whereVars>>
       \/ /\ program = "where-am-i" /\ WhereNext
          /\ UNCHANGED <<aggVars, tsVars, sixVars, rsgVars, alignVars>>

\* The fairness of AggSpec and of TSSpec.
MCSpec == /\ MCInit /\ [][MCNext]_allVars
          /\ WF_aggVars(AggregatorRuns)
          /\ \A t \in Thread : WF_tsVars(ThreadRuns(t))
=============================================================================
