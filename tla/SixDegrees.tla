----------------------------- MODULE SixDegrees -----------------------------
(***************************************************************************)
(* six-degrees.cc: asks for two players and searches the movie database,   *)
(* breadth first, for a shortest path of shared films between them.        *)
(***************************************************************************)
EXTENDS MovieDatabase

CONSTANT HOW_FAR

ASSUME HowFarAssumption == HOW_FAR \in Nat \ {0}

VARIABLES asked,       \* the names given so far: source, target
          q,           \* the queue of paths; empty unless a search is on
          seenActors, seenMovies,
          answer       \* what was printed since the last prompt

sixVars == <<dbVars, asked, q, seenActors, seenMovies, answer>>

NoAnswer == [for |-> <<>>, found |-> FALSE, links |-> <<>>]

\* class path (path.h is not in the repository): a player, and the links
\* <<film, player>> that were added.
PathFrom(player) == [start |-> player, links |-> <<>>]
GetLength(p)     == Len(p.links)
GetLastPlayer(p) == IF p.links = <<>> THEN p.start ELSE Last(p.links)[2]
AddConnection(p, film, player) == [p EXCEPT !.links = Append(@, <<film, player>>)]

Asking == /\ asked = <<>>
          /\ q = <<>> /\ seenActors = {} /\ seenMovies = {}
          /\ answer = NoAnswer

SixInit == DbInit /\ Asking

Searching == q # <<>>

\* A name that is not in the database is asked for again.
PromptForActor(response) ==
    /\ ~Searching /\ Len(asked) < 2
    /\ asked' = IF GetCredits(response, <<>>).found THEN Append(asked, response) ELSE asked
    /\ answer' = NoAnswer
    /\ UNCHANGED <<dbVars, q, seenActors, seenMovies>>

\* main, when both are known; the same player twice is turned down.
Start ==
    /\ ~Searching /\ Len(asked) = 2
    /\ IF asked[1] = asked[2]
       THEN asked' = <<>> /\ UNCHANGED <<q, seenActors>>
       ELSE /\ q' = <<PathFrom(asked[1])>>
            /\ seenActors' = {asked[1]}
            /\ UNCHANGED asked
    /\ seenMovies' = {}
    /\ UNCHANGED <<dbVars, answer>>

\* Mutant: a new path goes to the front of the queue.
PushFront(search, path) == [search EXCEPT !.q = <<path>> \o @]
Push(search, path)      == [search EXCEPT !.q = Append(@, path)]

\* A path for a player not seen before.
AddPlayer(search, path, film, coactor) ==
    IF coactor \in search.actors THEN search
    ELSE Push([search EXCEPT !.actors = @ \cup {coactor}],
              AddConnection(path, film, coactor))

\* The players of a film not seen before, one after the other.
AddCast(search, path, film) ==
    LET players == GetCast(film, <<>>).players
        after[n \in 0..Len(players)] ==
            IF n = 0 THEN [search EXCEPT !.movies = @ \cup {film}]
            ELSE AddPlayer(after[n - 1], path, film, players[n])
    IN  IF film \in search.movies THEN search ELSE after[Len(players)]

AddCasts(search, path, films) ==
    LET after[n \in 0..Len(films)] ==
            IF n = 0 THEN search ELSE AddCast(after[n - 1], path, films[n])
    IN  after[Len(films)]

\* Mutant: the search stops one step too early.
TooLong(path) == GetLength(path) >= HOW_FAR - 1
LongEnough(path) == GetLength(path) = HOW_FAR

\* One turn of the loop of generateShortestPath, and the test for an empty
\* queue that begins the next; when it returns, the locals
\* are gone and main prints the path or that there is none.
GenerateShortestPath ==
    LET path == Head(q)
        target == asked[2]
        done(found, links) ==
            /\ answer' = [for |-> asked, found |-> found, links |-> links]
            /\ asked' = <<>>
            /\ q' = <<>> /\ seenActors' = {} /\ seenMovies' = {}
        next == AddCasts([q |-> Tail(q), actors |-> seenActors, movies |-> seenMovies], path,
                         GetCredits(GetLastPlayer(path), <<>>).films)
    IN  /\ Searching
        /\ IF LongEnough(path) THEN done(FALSE, <<>>)
           ELSE IF GetLastPlayer(path) = target THEN done(TRUE, path.links)
           ELSE IF next.q = <<>> THEN done(FALSE, <<>>)
           ELSE /\ q' = next.q /\ seenActors' = next.actors /\ seenMovies' = next.movies
                /\ UNCHANGED <<asked, answer>>
        /\ UNCHANGED dbVars

SixNext == \/ \E response \in Player : PromptForActor(response)
           \/ Start
           \/ GenerateShortestPath

SixSpec == SixInit /\ [][SixNext]_sixVars

-----------------------------------------------------------------------------
\* When c says who plays in each film: who shares a film with one of these,
\* and who is at most n films away from p.
Neighbours(c, players) == UNION {c[f] : f \in {g \in Film : c[g] \cap players # {}}}
Within(c, p, n) ==
    LET reach[k \in 0..n] ==
            IF k = 0 THEN {p} ELSE Neighbours(c, reach[k - 1]) \cup reach[k - 1]
    IN  reach[n]

\* The path printed leads from the source to the target over films in which
\* both ends of each link play, none is shorter, and when it says that there
\* is none, there is none of fewer than HOW_FAR films.  One of exactly HOW_FAR
\* is in the queue but never printed (generateShortestPath tests the length
\* before the target).
ShortestPathFound ==
    answer # NoAnswer =>
        LET source == answer.for[1]
            target == answer.for[2]
            n == Len(answer.links)
            player(k) == IF k = 0 THEN source ELSE answer.links[k][2]
        IN  IF ~answer.found THEN target \notin Within(cast, source, HOW_FAR - 1)
            ELSE /\ player(n) = target
                 /\ \A k \in 1..n : {player(k - 1), player(k)} \subseteq cast[answer.links[k][1]]
                 /\ target \notin Within(cast, source, n - 1)

\* "since size of paths increases monotonically, it is safe to check only
\* front paths size" (six-degrees.cc:49): the paths wait in the order of their
\* lengths, which differ by at most one, and no two end at one player.
QueueByLength ==
    \A m, n \in DOMAIN q : m < n =>
        /\ GetLength(q[n]) - GetLength(q[m]) \in {0, 1}
        /\ GetLastPlayer(q[m]) # GetLastPlayer(q[n])
=============================================================================
