-------------------------- MODULE AggregatorProofs --------------------------
(***************************************************************************)
(* Theorems about the sequential aggregator, for any feeds, documents,     *)
(* servers, answers and words.                                             *)
(***************************************************************************)
EXTENDS SequentialAggregator, TLAPS, SequenceTheorems, FiniteSetTheorems

IsSeq(s)     == \E S : s \in Seq(S)
IsCall(c)    == c = [fn |-> c.fn, url |-> c.url, title |-> c.title, at |-> c.at, pos |-> c.pos]
IsArticle(c) == c.fn = "ParseArticle"
OnTop(s, e)  == [s EXCEPT ![Len(s)] = e]
Indexed(ix, c) == \E k \in DOMAIN ix : ix[k] = <<c.url, c.title>>

\* The stack c of calls, with the articles ix: the calls of ParseArticle are
\* on top, have one title, have been indexed when they are past the search,
\* and are then on different servers.
CallsGood(c, ix) ==
    /\ IsSeq(c)
    /\ \A n \in DOMAIN c : IsCall(c[n])
    /\ \A n \in DOMAIN c : n < Len(c) /\ IsArticle(c[n]) => c[n].at # "begin"
    /\ \A m, n \in DOMAIN c : m < n /\ IsArticle(c[m]) =>
          IsArticle(c[n]) /\ c[n].title = c[m].title
    /\ \A n \in DOMAIN c : IsArticle(c[n]) /\ c[n].at # "begin" => Indexed(ix, c[n])
    /\ \A m, n \in DOMAIN c :
          m < n /\ IsArticle(c[m]) /\ IsArticle(c[n]) /\ c[n].at # "begin" =>
             Server(c[m].url) # Server(c[n].url)

AggInv == /\ IsSeq(indexed)
          /\ NoDuplicateArticles
          /\ CallsGood(calls, indexed)

-----------------------------------------------------------------------------
(* Sequences whatever their elements are *)

LEMMA SeqFacts ==
    ASSUME NEW s, IsSeq(s)
    PROVE  /\ Len(s) \in Nat /\ DOMAIN s = 1..Len(s)
           /\ s # <<>> => Len(s) \in 1..Len(s) /\ Last(s) = s[Len(s)]
<1>1. PICK S : s \in Seq(S) BY DEF IsSeq
<1> QED BY <1>1 DEF Last

LEMMA AppendFacts ==
    ASSUME NEW s, IsSeq(s), NEW e
    PROVE  LET t == Append(s, e) IN
           /\ IsSeq(t) /\ Len(t) = Len(s) + 1
           /\ \A n \in 1..Len(s) : t[n] = s[n]
           /\ t[Len(s) + 1] = e
<1>1. PICK S : s \in Seq(S) BY DEF IsSeq
<1> DEFINE T == S \cup {e}
<1>2. s \in Seq(T) /\ e \in T BY <1>1
<1> HIDE DEF T
<1>3. Append(s, e) \in Seq(T) BY <1>2
<1> QED BY <1>2, <1>3 DEF IsSeq

LEMMA FrontFacts ==
    ASSUME NEW s, IsSeq(s), s # <<>>
    PROVE  LET t == Front(s) IN
           /\ IsSeq(t) /\ Len(t) = Len(s) - 1
           /\ \A n \in 1..(Len(s) - 1) : t[n] = s[n]
<1>1. PICK S : s \in Seq(S) BY DEF IsSeq
<1> DEFINE k == Len(s) - 1
<1>2. k \in Nat /\ Len(s) = k + 1 BY <1>1, EmptySeq
<1>3. \A i \in 1..k : s[i] \in S BY <1>1, <1>2, ElementOfSeq
<1>4. Front(s) = SubSeq(s, 1, k) BY DEF Front
<1> HIDE DEF k
<1>5. /\ SubSeq(s, 1, k) \in Seq(S)
      /\ Len(SubSeq(s, 1, k)) = IF 1 <= k THEN k - 1 + 1 ELSE 0
      /\ \A i \in 1..(k - 1 + 1) : SubSeq(s, 1, k)[i] = s[1 + i - 1]
  BY <1>2, <1>3, SubSeqProperties
<1>6. IsSeq(Front(s)) BY <1>4, <1>5, Zenon DEF IsSeq
<1>7. Len(Front(s)) = k BY <1>2, <1>4, <1>5
<1>8. \A i \in 1..k : Front(s)[i] = s[i] BY <1>2, <1>4, <1>5
<1> QED BY <1>2, <1>6, <1>7, <1>8

LEMMA ReplacedFacts ==
    ASSUME NEW s, IsSeq(s), s # <<>>, NEW e
    PROVE  LET t == OnTop(s, e) IN
           /\ IsSeq(t) /\ Len(t) = Len(s)
           /\ \A n \in 1..(Len(s) - 1) : t[n] = s[n]
           /\ t[Len(s)] = e
<1>1. PICK S : s \in Seq(S) BY DEF IsSeq
<1> DEFINE T == S \cup {e}
<1>2. s \in Seq(T) /\ e \in T BY <1>1
<1> HIDE DEF T
<1>3. Len(s) \in 1..Len(s) BY <1>2, EmptySeq
<1>4. /\ [s EXCEPT ![Len(s)] = e] \in Seq(T)
      /\ Len([s EXCEPT ![Len(s)] = e]) = Len(s)
      /\ \A j \in 1..Len(s) : [s EXCEPT ![Len(s)] = e][j] = IF j = Len(s) THEN e ELSE s[j]
  BY <1>2, <1>3, ExceptSeq
<1>5. IsSeq(OnTop(s, e)) BY <1>4, Zenon DEF IsSeq, OnTop
<1>6. /\ Len(OnTop(s, e)) = Len(s)
      /\ \A j \in 1..Len(s) : OnTop(s, e)[j] = IF j = Len(s) THEN e ELSE s[j]
  BY <1>4, Zenon DEF OnTop
<1> QED BY <1>2, <1>3, <1>5, <1>6

-----------------------------------------------------------------------------
(* What the steps do to the stack *)

LEMMA ReturnGood ==
    ASSUME NEW c, NEW ix, CallsGood(c, ix), c # <<>>
    PROVE  CallsGood(Front(c), ix)
<1>1. IsSeq(c) BY DEF CallsGood
<1>2. Len(c) \in Nat /\ DOMAIN c = 1..Len(c) BY <1>1, SeqFacts
<1> DEFINE d == Front(c)
<1>3. IsSeq(d) /\ Len(d) = Len(c) - 1 /\ \A n \in 1..(Len(c) - 1) : d[n] = c[n]
  BY <1>1, FrontFacts
<1>4. DOMAIN d = 1..(Len(c) - 1) BY <1>3, SeqFacts
<1> HIDE DEF d
<1>5. DOMAIN d \subseteq DOMAIN c /\ \A n \in DOMAIN d : d[n] = c[n] BY <1>2, <1>3, <1>4
<1>6. \A n \in DOMAIN d : n < Len(d) => n < Len(c) BY <1>2, <1>3, <1>4
<1>7. CallsGood(d, ix)
  BY <1>3, <1>5, <1>6 DEF CallsGood
<1> QED BY <1>7 DEF d

\* The call on top goes on: e is what becomes of it.
LEMMA MoveGood ==
    ASSUME NEW c, NEW ix, CallsGood(c, ix), c # <<>>, NEW e, IsCall(e),
           LET top == Last(c) IN
           /\ e.fn = top.fn /\ e.url = top.url /\ e.title = top.title
           /\ IsArticle(top) => top.at # "begin"
    PROVE  /\ CallsGood(OnTop(c, e), ix)
           /\ Last(OnTop(c, e)) = e
           /\ OnTop(c, e) # <<>>
<1>1. IsSeq(c) BY DEF CallsGood
<1>2. /\ Len(c) \in Nat /\ DOMAIN c = 1..Len(c) /\ Len(c) \in 1..Len(c)
      /\ Last(c) = c[Len(c)]
  BY <1>1, SeqFacts
<1> DEFINE d == OnTop(c, e)
<1>3. /\ IsSeq(d) /\ Len(d) = Len(c) /\ d[Len(c)] = e
      /\ \A n \in 1..(Len(c) - 1) : d[n] = c[n]
  BY <1>1, ReplacedFacts
<1>4. DOMAIN d = 1..Len(c) BY <1>3, SeqFacts
<1> HIDE DEF d
<1>5. \A n \in DOMAIN c : /\ d[n].fn = c[n].fn /\ d[n].url = c[n].url
                          /\ d[n].title = c[n].title /\ IsCall(d[n])
                          /\ n < Len(c) => d[n] = c[n]
                          /\ n < Len(c) \/ n = Len(c)
  <2> TAKE n \in DOMAIN c
  <2>1. CASE n = Len(c) BY <2>1, <1>2, <1>3
  <2>2. CASE n # Len(c)
    <3>1. n \in 1..(Len(c) - 1) BY <2>2, <1>2
    <3> QED BY <3>1, <1>2, <1>3 DEF CallsGood
  <2> QED BY <2>1, <2>2
<1>6. \A n \in DOMAIN c : IsArticle(d[n]) /\ d[n].at # "begin" =>
                             IsArticle(c[n]) /\ c[n].at # "begin"
  BY <1>2, <1>5 DEF IsArticle
<1>7. CallsGood(d, ix)
  BY <1>2, <1>3, <1>4, <1>5, <1>6 DEF CallsGood, IsArticle, Indexed
<1>8. d # <<>> /\ Last(d) = e
  <2>1. d # <<>> BY <1>2, <1>4
  <2> QED BY <2>1, <1>3, SeqFacts
<1> QED BY <1>7, <1>8 DEF d

\* A call e begins: one of ParseArticle when the one on top, if it is of
\* ParseArticle too, is past its search and has the same title.
LEMMA CallGood ==
    ASSUME NEW c, NEW ix, CallsGood(c, ix), NEW e, IsCall(e), e.at = "begin",
           c # <<>> => LET top == Last(c) IN
                       IsArticle(top) => /\ top.at # "begin"
                                         /\ IsArticle(e) /\ e.title = top.title
    PROVE  CallsGood(Append(c, e), ix)
<1>1. IsSeq(c) BY DEF CallsGood
<1>2. Len(c) \in Nat /\ DOMAIN c = 1..Len(c) BY <1>1, SeqFacts
<1> DEFINE d == Append(c, e)
           k == Len(c) + 1
<1>3. /\ IsSeq(d) /\ Len(d) = k /\ d[k] = e
      /\ \A n \in DOMAIN c : d[n] = c[n]
  BY <1>1, <1>2, AppendFacts
<1>4. DOMAIN d = 1..k BY <1>3, SeqFacts
<1>5. \A n \in DOMAIN d : n \in DOMAIN c \/ n = k BY <1>2, <1>4
<1>6. \A n \in DOMAIN c : n < k /\ ~(k < n) BY <1>2
<1> HIDE DEF d
<1>7. \A n \in DOMAIN c : IsArticle(c[n]) =>
                             /\ c[n].at # "begin"
                             /\ IsArticle(e) /\ e.title = c[n].title
  <2> SUFFICES ASSUME NEW n \in DOMAIN c, IsArticle(c[n])
               PROVE  c[n].at # "begin" /\ IsArticle(e) /\ e.title = c[n].title
    OBVIOUS
  <2>1. c # <<>> BY <1>2
  <2>2. Last(c) = c[Len(c)] /\ Len(c) \in DOMAIN c BY <1>1, <1>2, <2>1, SeqFacts
  <2>3. CASE n = Len(c) BY <2>1, <2>2, <2>3
  <2>4. CASE n # Len(c)
    <3>1. n < Len(c) BY <2>4, <1>2
    <3>2. c[n].at # "begin" BY <3>1 DEF CallsGood
    <3>3. IsArticle(c[Len(c)]) /\ c[Len(c)].title = c[n].title
      BY <3>1, <2>2 DEF CallsGood
    <3> QED BY <2>1, <2>2, <3>2, <3>3
  <2> QED BY <2>3, <2>4
<1>8. \A n \in DOMAIN d : IsCall(d[n]) BY <1>3, <1>5 DEF CallsGood
<1>9. \A n \in DOMAIN d : n < Len(d) /\ IsArticle(d[n]) => d[n].at # "begin"
  BY <1>2, <1>3, <1>5, <1>7
<1>10. \A m, n \in DOMAIN d : m < n /\ IsArticle(d[m]) =>
           IsArticle(d[n]) /\ d[n].title = d[m].title
  <2> SUFFICES ASSUME NEW m \in DOMAIN d, NEW n \in DOMAIN d, m < n, IsArticle(d[m])
               PROVE  IsArticle(d[n]) /\ d[n].title = d[m].title
    OBVIOUS
  <2>1. m \in DOMAIN c BY <1>2, <1>4, <1>5
  <2>2. CASE n = k BY <2>1, <2>2, <1>3, <1>7
  <2>3. CASE n \in DOMAIN c BY <2>1, <2>3, <1>3 DEF CallsGood
  <2> QED BY <2>2, <2>3, <1>5
<1>11. \A n \in DOMAIN d : IsArticle(d[n]) /\ d[n].at # "begin" => Indexed(ix, d[n])
  BY <1>3, <1>5 DEF CallsGood
<1>12. \A m, n \in DOMAIN d :
          m < n /\ IsArticle(d[m]) /\ IsArticle(d[n]) /\ d[n].at # "begin" =>
             Server(d[m].url) # Server(d[n].url)
  <2> SUFFICES ASSUME NEW m \in DOMAIN d, NEW n \in DOMAIN d, m < n,
                      IsArticle(d[m]), IsArticle(d[n]), d[n].at # "begin"
               PROVE  Server(d[m].url) # Server(d[n].url)
    OBVIOUS
  <2>1. n \in DOMAIN c BY <1>3, <1>5
  <2>2. m \in DOMAIN c BY <1>2, <1>4, <1>5, <2>1
  <2> QED BY <2>1, <2>2, <1>3 DEF CallsGood
<1>13. CallsGood(d, ix) BY <1>3, <1>8, <1>9, <1>10, <1>11, <1>12 DEF CallsGood
<1> QED BY <1>13 DEF d

-----------------------------------------------------------------------------
(* The invariant *)

\* A step that indexes nothing.
LEMMA SameIndexed ==
    ASSUME AggInv, indexed' = indexed, CallsGood(calls', indexed)
    PROVE  AggInv'
BY DEF AggInv, NoDuplicateArticles

LEMMA NewCall ==
    ASSUME NEW fn, NEW url, NEW title
    PROVE  LET c == Call(fn, url, title) IN
           IsCall(c) /\ c.fn = fn /\ c.title = title /\ c.at = "begin"
BY DEF Call, IsCall

LEMMA MovedToGood ==
    ASSUME AggInv, calls # <<>>, NEW at,
           IsArticle(Top) => Top.at # "begin"
    PROVE  LET d == MovedTo(at) IN
           /\ CallsGood(d, indexed) /\ d # <<>>
           /\ Last(d).fn = Top.fn /\ Last(d).title = Top.title /\ Last(d).at = at
<1> DEFINE k == Len(calls)
           e == [calls[k] EXCEPT !.at = at]
<1>1. CallsGood(calls, indexed) BY DEF AggInv
<1>2. IsSeq(calls) BY <1>1 DEF CallsGood
<1>3. k \in DOMAIN calls /\ Top = calls[k] BY <1>2, SeqFacts DEF Top
<1>4. IsCall(calls[k]) BY <1>1, <1>3 DEF CallsGood
<1>5. /\ IsCall(e) /\ e.fn = Top.fn /\ e.url = Top.url /\ e.title = Top.title
      /\ e.at = at
  BY <1>3, <1>4 DEF IsCall
<1>6. MovedTo(at) = OnTop(calls, e) BY <1>3 DEF MovedTo, OnTop
<1> HIDE DEF e
<1>7. Top = Last(calls) BY DEF Top
<1> QED BY <1>1, <1>5, <1>6, <1>7, MoveGood

LEMMA SearchKeepsInv ==
    ASSUME AggInv, SearchArticle
    PROVE  AggInv'
<1> DEFINE k == Len(calls)
           article == <<Top.url, Top.title>>
<1>1. calls # <<>> /\ IsArticle(Top) /\ Top.at = "begin"
  BY DEF SearchArticle, In, IsArticle
<1>2. CallsGood(calls, indexed) /\ IsSeq(calls) /\ IsSeq(indexed) /\ NoDuplicateArticles
  BY DEF AggInv, CallsGood
<1>3. k \in Nat /\ DOMAIN calls = 1..k /\ k \in DOMAIN calls /\ Top = calls[k]
  BY <1>1, <1>2, SeqFacts DEF Top
<1>4. CASE Seen(article)
  <2>1. calls' = Front(calls) /\ indexed' = indexed
    BY <1>4 DEF SearchArticle, Returned
  <2> QED BY <1>1, <1>2, <2>1, ReturnGood, SameIndexed
<1>5. CASE ~Seen(article)
  <2>1. calls' = MovedTo("connecting") /\ indexed' = Append(indexed, article)
    BY <1>5 DEF SearchArticle
  <2>2. \A n \in DOMAIN indexed : ~SameArticle(indexed[n], article)
    BY <1>5 DEF Seen
  <2> DEFINE e == [calls[k] EXCEPT !.at = "connecting"]
             j == Len(indexed) + 1
  <2>3. IsCall(calls[k]) BY <1>2, <1>3 DEF CallsGood
  <2>4. /\ IsCall(e) /\ e.fn = Top.fn /\ e.url = Top.url /\ e.title = Top.title
        /\ e.at = "connecting"
    BY <1>3, <2>3 DEF IsCall
  <2>5. calls' = OnTop(calls, e) BY <1>3, <2>1 DEF MovedTo, OnTop
  <2> HIDE DEF e, article
  <2>6. /\ IsSeq(calls') /\ Len(calls') = k /\ calls'[k] = e
        /\ \A n \in 1..(k - 1) : calls'[n] = calls[n]
    BY <1>1, <1>2, <2>5, ReplacedFacts
  <2>7. DOMAIN calls' = 1..k BY <2>6, SeqFacts
  <2>8. /\ Len(indexed) \in Nat /\ DOMAIN indexed = 1..Len(indexed)
        /\ IsSeq(indexed') /\ Len(indexed') = j /\ indexed'[j] = article
        /\ \A n \in DOMAIN indexed : indexed'[n] = indexed[n]
    BY <1>2, <2>1, SeqFacts, AppendFacts
  <2>9. DOMAIN indexed' = 1..j BY <2>8, SeqFacts
  <2>10. NoDuplicateArticles'
    <3> SUFFICES ASSUME NEW m \in DOMAIN indexed', NEW n \in DOMAIN indexed', m < n
                 PROVE  /\ indexed'[m][1] # indexed'[n][1]
                        /\ indexed'[m][2] = indexed'[n][2] =>
                              Server(indexed'[m][1]) # Server(indexed'[n][1])
      BY DEF NoDuplicateArticles
    <3>1. m \in DOMAIN indexed BY <2>8, <2>9
    <3>2. CASE n \in DOMAIN indexed
      BY <1>2, <2>8, <3>1, <3>2 DEF NoDuplicateArticles
    <3>3. CASE n = j
      BY <2>2, <2>8, <3>1, <3>3 DEF SameArticle
    <3> QED BY <2>8, <2>9, <3>2, <3>3
  <2>11. \A c : Indexed(indexed, c) => Indexed(indexed', c)
    BY <2>8, <2>9 DEF Indexed
  <2>12. Indexed(indexed', e)
    BY <2>4, <2>8, <2>9 DEF Indexed, article
  <2>13. \A n \in DOMAIN calls' : n = k \/ (n \in DOMAIN calls /\ n < k /\ calls'[n] = calls[n])
    BY <1>3, <2>6, <2>7
  <2>14. \A m \in DOMAIN calls : m < k /\ IsArticle(calls[m]) =>
              /\ Server(calls[m].url) # Server(Top.url)
              /\ calls[m].title = Top.title
    <3> SUFFICES ASSUME NEW m \in DOMAIN calls, m < k, IsArticle(calls[m])
                 PROVE  /\ Server(calls[m].url) # Server(Top.url)
                        /\ calls[m].title = Top.title
      OBVIOUS
    <3>1. calls[m].title = Top.title BY <1>2, <1>3 DEF CallsGood
    <3>2. calls[m].at # "begin" BY <1>2, <1>3 DEF CallsGood
    <3>3. PICK i \in DOMAIN indexed : indexed[i] = <<calls[m].url, calls[m].title>>
      BY <1>2, <3>2 DEF CallsGood, Indexed
    <3>4. ~SameArticle(indexed[i], article) BY <2>2
    <3> QED BY <3>1, <3>3, <3>4 DEF SameArticle, article
  <2>15. \A n \in DOMAIN calls' : IsCall(calls'[n]) BY <1>2, <2>4, <2>6, <2>13 DEF CallsGood
  <2>16. \A n \in DOMAIN calls' : n < Len(calls') /\ IsArticle(calls'[n]) => calls'[n].at # "begin"
    BY <1>2, <1>3, <2>6, <2>13 DEF CallsGood
  <2>17. \A m, n \in DOMAIN calls' : m < n /\ IsArticle(calls'[m]) =>
            IsArticle(calls'[n]) /\ calls'[n].title = calls'[m].title
    <3> SUFFICES ASSUME NEW m \in DOMAIN calls', NEW n \in DOMAIN calls', m < n,
                        IsArticle(calls'[m])
                 PROVE  IsArticle(calls'[n]) /\ calls'[n].title = calls'[m].title
      OBVIOUS
    <3>1. m \in DOMAIN calls /\ m < k /\ calls'[m] = calls[m]
      BY <1>3, <2>7, <2>13
    <3>2. CASE n = k BY <1>1, <2>4, <2>6, <2>14, <3>1, <3>2 DEF IsArticle
    <3>3. CASE n # k BY <1>2, <2>13, <3>1, <3>3 DEF CallsGood
    <3> QED BY <3>2, <3>3
  <2>18. \A n \in DOMAIN calls' :
            IsArticle(calls'[n]) /\ calls'[n].at # "begin" => Indexed(indexed', calls'[n])
    BY <1>2, <2>6, <2>11, <2>12, <2>13 DEF CallsGood
  <2>19. \A m, n \in DOMAIN calls' :
            m < n /\ IsArticle(calls'[m]) /\ IsArticle(calls'[n]) /\ calls'[n].at # "begin" =>
               Server(calls'[m].url) # Server(calls'[n].url)
    <3> SUFFICES ASSUME NEW m \in DOMAIN calls', NEW n \in DOMAIN calls', m < n,
                        IsArticle(calls'[m]), IsArticle(calls'[n]), calls'[n].at # "begin"
                 PROVE  Server(calls'[m].url) # Server(calls'[n].url)
      OBVIOUS
    <3>1. m \in DOMAIN calls /\ m < k /\ calls'[m] = calls[m]
      BY <1>3, <2>7, <2>13
    <3>2. CASE n = k BY <2>4, <2>6, <2>14, <3>1, <3>2
    <3>3. CASE n # k BY <1>2, <2>13, <3>1, <3>3 DEF CallsGood
    <3> QED BY <3>2, <3>3
  <2>20. CallsGood(calls', indexed')
    BY <2>6, <2>15, <2>16, <2>17, <2>18, <2>19 DEF CallsGood
  <2> QED BY <2>8, <2>10, <2>20 DEF AggInv
<1> QED BY <1>4, <1>5

LEMMA AnswerKeepsInv ==
    ASSUME AggInv, NEW a, ProcessFeed(a) \/ ParseArticle(a)
    PROVE  AggInv'
<1>1. calls # <<>> /\ indexed' = indexed BY DEF ProcessFeed, ParseArticle, In
<1>2. CallsGood(calls, indexed) BY DEF AggInv
<1>3. CASE ProcessFeed(a)
  <2>1. Top.fn = "ProcessFeed" /\ ~IsArticle(Top) BY <1>3 DEF ProcessFeed, In, IsArticle
  <2>2. \/ calls' = Returned
        \/ calls' = MovedTo("reading")
        \/ calls' = Append(MovedTo("waiting"), Call("ProcessFeed", a[2], <<>>))
    BY <1>3 DEF ProcessFeed
  <2>3. CASE calls' = Returned BY <1>1, <1>2, <2>3, ReturnGood, SameIndexed DEF Returned
  <2>4. CASE calls' = MovedTo("reading") BY <1>1, <2>1, <2>4, MovedToGood, SameIndexed
  <2>5. CASE calls' = Append(MovedTo("waiting"), Call("ProcessFeed", a[2], <<>>))
    <3> DEFINE d == MovedTo("waiting")
               e == Call("ProcessFeed", a[2], <<>>)
    <3>1. CallsGood(d, indexed) /\ Last(d).fn = Top.fn BY <1>1, <2>1, MovedToGood
    <3>2. IsCall(e) /\ e.at = "begin" BY NewCall
    <3> HIDE DEF d, e
    <3>3. ~IsArticle(Last(d)) BY <2>1, <3>1 DEF IsArticle
    <3>4. CallsGood(Append(d, e), indexed) BY <3>1, <3>2, <3>3, CallGood
    <3> QED BY <1>1, <2>5, <3>4, SameIndexed DEF d, e
  <2> QED BY <2>2, <2>3, <2>4, <2>5
<1>4. CASE ParseArticle(a)
  <2>1. Top.fn = "ParseArticle" /\ Top.at = "connecting" /\ IsArticle(Top)
    BY <1>4 DEF ParseArticle, In, IsArticle
  <2>2. \/ calls' = Returned
        \/ calls' = MovedTo("scanning")
        \/ calls' = Append(MovedTo("waiting"), Call("ParseArticle", a[2], Top.title))
    BY <1>4 DEF ParseArticle
  <2>3. CASE calls' = Returned BY <1>1, <1>2, <2>3, ReturnGood, SameIndexed DEF Returned
  <2>4. CASE calls' = MovedTo("scanning") BY <1>1, <2>1, <2>4, MovedToGood, SameIndexed
  <2>5. CASE calls' = Append(MovedTo("waiting"), Call("ParseArticle", a[2], Top.title))
    <3> DEFINE d == MovedTo("waiting")
               e == Call("ParseArticle", a[2], Top.title)
    <3>1. /\ CallsGood(d, indexed)
          /\ Last(d).title = Top.title /\ Last(d).at = "waiting"
      BY <1>1, <2>1, MovedToGood
    <3>2. IsCall(e) /\ e.at = "begin" /\ IsArticle(e) /\ e.title = Top.title
      BY NewCall DEF IsArticle
    <3> HIDE DEF d, e
    <3>3. CallsGood(Append(d, e), indexed) BY <3>1, <3>2, CallGood
    <3> QED BY <1>1, <2>5, <3>3, SameIndexed DEF d, e
  <2> QED BY <2>2, <2>3, <2>4, <2>5
<1> QED BY <1>3, <1>4

LEMMA ParseKeepsInv ==
    ASSUME AggInv, Parse
    PROVE  AggInv'
<1>1. /\ calls # <<>> /\ Top.fn = "ProcessFeed" /\ indexed' = indexed
      /\ calls' \in {calls, Append(calls, Call("ParseArticle", item.link, item.title))}
  BY DEF Parse, In
<1>2. CallsGood(calls, indexed) /\ ~IsArticle(Last(calls))
  BY <1>1 DEF AggInv, IsArticle, Top
<1> DEFINE e == Call("ParseArticle", item.link, item.title)
<1>3. IsCall(e) /\ e.at = "begin" BY NewCall
<1> HIDE DEF e
<1>4. CallsGood(Append(calls, e), indexed) BY <1>2, <1>3, CallGood
<1> QED BY <1>1, <1>2, <1>4, SameIndexed DEF e

LEMMA ScanKeepsInv ==
    ASSUME AggInv, ScanArticle
    PROVE  AggInv'
<1> DEFINE k == Len(calls)
           e == [calls[k] EXCEPT !.pos = @ + 1]
<1>1. calls # <<>> /\ Top.at = "scanning" /\ indexed' = indexed
  BY DEF ScanArticle, In
<1>2. CallsGood(calls, indexed) /\ IsSeq(calls) BY DEF AggInv, CallsGood
<1>3. k \in DOMAIN calls /\ Top = calls[k] BY <1>1, <1>2, SeqFacts DEF Top
<1>4. calls' = Returned \/ calls' = [calls EXCEPT ![k].pos = @ + 1]
  BY DEF ScanArticle
<1>5. CASE calls' = Returned BY <1>1, <1>2, <1>5, ReturnGood, SameIndexed DEF Returned
<1>6. CASE calls' = [calls EXCEPT ![k].pos = @ + 1]
  <2>1. calls' = OnTop(calls, e) BY <1>3, <1>6 DEF OnTop
  <2>2. IsCall(calls[k]) BY <1>2, <1>3 DEF CallsGood
  <2>3. IsCall(e) /\ e.fn = Top.fn /\ e.url = Top.url /\ e.title = Top.title
    BY <1>3, <2>2 DEF IsCall
  <2> HIDE DEF e
  <2>4. CallsGood(OnTop(calls, e), indexed)
    BY <1>1, <1>2, <2>3, MoveGood DEF Top
  <2> QED BY <1>1, <2>1, <2>4, SameIndexed
<1> QED BY <1>4, <1>5, <1>6

LEMMA AggStep == AggInv /\ [AggNext]_aggVars => AggInv'
<1> SUFFICES ASSUME AggInv, [AggNext]_aggVars PROVE AggInv'
  OBVIOUS
<1>1. CallsGood(calls, indexed) BY DEF AggInv
<1>2. CASE UNCHANGED <<calls, indexed>> BY <1>1, <1>2, SameIndexed
<1>3. CASE GetStopWords BY <1>2, <1>3 DEF GetStopWords
<1>4. CASE BuildIndices
  <2> DEFINE e == Call("ProcessFeed", FeedsFile[nextFeed], <<>>)
  <2>1. calls = <<>> /\ calls' = <<e>> /\ indexed' = indexed BY <1>4 DEF BuildIndices
  <2>2. IsCall(e) /\ e.at = "begin" BY NewCall
  <2> HIDE DEF e
  <2>3. CallsGood(Append(<<>>, e), indexed) BY <1>1, <2>1, <2>2, CallGood
  <2>4. Append(<<>>, e) = <<e>> OBVIOUS
  <2> QED BY <2>1, <2>3, <2>4, SameIndexed
<1>5. ASSUME NEW a, ProcessFeed(a) \/ ParseArticle(a) PROVE AggInv'
  BY <1>5, AnswerKeepsInv
<1>6. CASE Parse BY <1>6, ParseKeepsInv
<1>7. CASE FeedRead
  BY <1>1, <1>7, ReturnGood, SameIndexed DEF FeedRead, In, Returned
<1>8. CASE SearchArticle BY <1>8, SearchKeepsInv
<1>9. CASE ScanArticle BY <1>9, ScanKeepsInv
<1>10. CASE Return
  BY <1>1, <1>10, ReturnGood, SameIndexed DEF Return, Returned
<1>11. ASSUME NEW w \in Words, ProcessResponse(w) PROVE AggInv'
  BY <1>2, <1>11 DEF ProcessResponse
<1>12. CASE UNCHANGED aggVars BY <1>2, <1>12 DEF aggVars
<1> QED
  BY <1>3, <1>4, <1>5, <1>6, <1>7, <1>8, <1>9, <1>10, <1>11, <1>12 DEF AggNext

LEMMA AggInitInv == AggInit => AggInv
<1> SUFFICES ASSUME AggInit PROVE AggInv OBVIOUS
<1>1. calls = <<>> /\ indexed = <<>> BY DEF AggInit, Unstarted
<1>2. IsSeq(<<>>) BY EmptySeq DEF IsSeq
<1>3. DOMAIN <<>> = {} OBVIOUS
<1> QED BY <1>1, <1>2, <1>3 DEF AggInv, CallsGood, NoDuplicateArticles

LEMMA AggInvAlways == AggSpec => []AggInv
BY AggInitInv, AggStep, PTL DEF AggSpec

\* However feeds repeat articles and servers redirect them, no article is
\* indexed twice.
THEOREM IndexedOnce == AggSpec => []NoDuplicateArticles
<1>1. AggInv => NoDuplicateArticles BY DEF AggInv
<1> QED BY <1>1, AggInvAlways, PTL

\* Any chain of redirects of an article leaves each server it meets: there are
\* never more nested calls that have connected than there are servers.
THEOREM ChainsLeaveServers == AggSpec => []RedirectsLeaveServers
<1>1. AggInv => RedirectsLeaveServers
  BY DEF AggInv, CallsGood, RedirectsLeaveServers, Reading, IsArticle
<1> QED BY <1>1, AggInvAlways, PTL

-----------------------------------------------------------------------------
(***************************************************************************)
(* The index.                                                              *)
(***************************************************************************)
\* The vector of a word: no article occurs twice.
GoodVector(v) ==
    /\ IsSeq(v)
    /\ \A n \in DOMAIN v : v[n] = [url |-> v[n].url, cnt |-> v[n].cnt] /\ v[n].cnt \in Nat
    /\ \A m, n \in DOMAIN v : v[m].url = v[n].url => m = n

\* The article u has the count k in v; none, if k is 0.
Has(v, u, k) == IF k = 0 THEN \A n \in DOMAIN v : v[n].url # u
                ELSE \E n \in DOMAIN v : v[n].url = u /\ v[n].cnt = k

Worth == Words \ ToSet(StopWordsFile)
VectorOf(ix, w) == IF w \in DOMAIN ix THEN ix[w] ELSE <<>>

\* The stop words are there before anything is read.
StopWordsFirst ==
    /\ nextFeed \in Nat
    /\ IF nextFeed = 0 THEN calls = <<>> /\ idx = <<>> ELSE stop = ToSet(StopWordsFile)

IndexGood(ix, tl) ==
    /\ DOMAIN ix \subseteq Worth
    /\ \A w \in DOMAIN ix : GoodVector(ix[w]) /\ ix[w] # <<>>
    /\ tl \in [Words \X Articles -> Nat]
    /\ \A w \in Worth, u \in Articles : Has(VectorOf(ix, w), u, tl[<<w, u>>])

IndexInv == StopWordsFirst /\ IndexGood(idx, tally)

\* An article is counted once more, the others as before.
LEMMA CountedFacts ==
    ASSUME NEW v, GoodVector(v), NEW u
    PROVE  LET t == Counted(v, u) IN
           /\ GoodVector(t) /\ t # <<>>
           /\ \A x : \A k \in Nat : Has(v, x, k) => Has(t, x, IF x = u THEN k + 1 ELSE k)
<1> DEFINE at == {n \in DOMAIN v : WCNTCompare(v[n], WCNT(u))}
           t == Counted(v, u)
<1>1. at = {n \in DOMAIN v : v[n].url = u}
  BY DEF WCNTCompare, WCNT
<1>2. Len(v) \in Nat /\ DOMAIN v = 1..Len(v) /\ IsSeq(v)
  BY SeqFacts DEF GoodVector
<1> DEFINE k0 == Len(v)
<1>3. CASE at = {}
  <2> DEFINE e == [url |-> u, cnt |-> 1]
  <2>1. t = Append(v, e)
    BY <1>3 DEF Counted, WCNT
  <2>2. /\ IsSeq(t) /\ Len(t) = k0 + 1 /\ t[k0 + 1] = e
        /\ \A n \in 1..k0 : t[n] = v[n]
    BY <1>2, <2>1, AppendFacts
  <2>3. e.url = u /\ e.cnt = 1 /\ e = [url |-> e.url, cnt |-> e.cnt] /\ e.cnt \in Nat
    OBVIOUS
  <2> HIDE DEF e, t
  <2>4. DOMAIN t = 1..(k0 + 1)
    BY <2>2, SeqFacts
  <2>5. \A n \in DOMAIN t : \/ n \in DOMAIN v /\ t[n] = v[n]
                            \/ n = k0 + 1 /\ t[n] = e
    <3> SUFFICES ASSUME NEW n \in DOMAIN t, n # k0 + 1 PROVE n \in DOMAIN v /\ t[n] = v[n]
      BY <2>2
    <3>1. n \in 1..k0
      BY <1>2, <2>4
    <3> QED BY <1>2, <2>2, <3>1
  <2>6. \A n \in DOMAIN v : v[n].url # u
    <3> HIDE DEF at
    <3> QED BY <1>1, <1>3
  <2>7. \A n \in DOMAIN v : n \in DOMAIN t /\ t[n] = v[n]
    BY <1>2, <2>2, <2>4
  <2>8. GoodVector(t)
    BY <2>2, <2>3, <2>5, <2>6 DEF GoodVector
  <2>9. t # <<>> /\ k0 + 1 \in DOMAIN t
    BY <1>2, <2>4
  <2>10. ASSUME NEW x, NEW k \in Nat, Has(v, x, k)
         PROVE  Has(t, x, IF x = u THEN k + 1 ELSE k)
    <3>1. CASE x = u
      <4>1. k = 0
        BY <2>6, <2>10, <3>1 DEF Has
      <4> QED BY <2>2, <2>3, <2>9, <3>1, <4>1 DEF Has
    <3>2. CASE x # u
      BY <2>3, <2>5, <2>7, <2>10, <3>2 DEF Has
    <3> QED BY <3>1, <3>2
  <2> QED BY <2>8, <2>9, <2>10 DEF t
<1>4. CASE at # {}
  <2>1. PICK m \in at : TRUE
    BY <1>4
  <2>2. at = {m} /\ m \in DOMAIN v /\ v[m].url = u /\ m \in Int
    BY <1>1, <1>2, <2>1 DEF GoodVector
  <2>3. Min(at) = m
    BY <2>2 DEF Min
  <2> DEFINE c == v[m].cnt
             e == [url |-> u, cnt |-> c + 1]
  <2>4. v[m] = [url |-> u, cnt |-> c] /\ c \in Nat
    BY <2>2 DEF GoodVector
  <2>5. t = [v EXCEPT ![m].cnt = @ + 1]
    BY <1>4, <2>3 DEF Counted
  <2>6. [v[m] EXCEPT !.cnt = @ + 1] = e
    BY <2>4
  <2>7. t = [v EXCEPT ![m] = e]
    BY <2>5, <2>6
  <2>8. e.url = u /\ e.cnt = c + 1 /\ e = [url |-> e.url, cnt |-> e.cnt] /\ e.cnt \in Nat
    BY <2>4
  <2> HIDE DEF e, t, at, c
  <2>9. IsSeq(t)
    <3>1. PICK S : v \in Seq(S)
      BY <1>2 DEF IsSeq
    <3>2. v \in Seq(S \cup {e})
      BY <3>1
    <3>3. t \in Seq(S \cup {e})
      BY <2>2, <2>7, <3>2
    <3> QED BY <3>3 DEF IsSeq
  <2>10. DOMAIN t = DOMAIN v /\ t[m] = e /\ \A n \in DOMAIN v : n # m => t[n] = v[n]
    BY <2>2, <2>7
  <2>11. \A n \in DOMAIN v : t[n].url = v[n].url
    BY <2>2, <2>8, <2>10
  <2>12. \A n \in DOMAIN v : t[n] = [url |-> t[n].url, cnt |-> t[n].cnt] /\ t[n].cnt \in Nat
    BY <2>8, <2>10 DEF GoodVector
  <2>13. GoodVector(t)
    BY <2>9, <2>10, <2>11, <2>12 DEF GoodVector
  <2>14. t # <<>>
    BY <2>2, <2>10
  <2>15. ASSUME NEW x, NEW k \in Nat, Has(v, x, k)
         PROVE  Has(t, x, IF x = u THEN k + 1 ELSE k)
    <3>1. CASE x = u
      <4>1. k # 0 /\ c = k
        BY <2>2, <2>15, <3>1 DEF Has, GoodVector, c
      <4> QED BY <2>2, <2>8, <2>10, <3>1, <4>1 DEF Has
    <3>2. CASE x # u
      BY <2>2, <2>10, <2>11, <2>15, <3>2 DEF Has
    <3> QED BY <3>1, <3>2
  <2> QED BY <2>13, <2>14, <2>15 DEF t
<1> QED BY <1>3, <1>4

\* A word is read in the article u.
LEMMA ReadGood ==
    ASSUME IndexGood(idx, tally), stop = ToSet(StopWordsFile), NEW w, NEW u, NEW tl,
           tl = IF w \in Words THEN [tally EXCEPT ![<<w, u>>] = @ + 1] ELSE tally
    PROVE  IndexGood(IndexWord(w, u), tl)
<1>1. /\ DOMAIN idx \subseteq Worth
      /\ \A x \in DOMAIN idx : GoodVector(idx[x]) /\ idx[x] # <<>>
      /\ tally \in [Words \X Articles -> Nat]
      /\ \A x \in Worth, y \in Articles : Has(VectorOf(idx, x), y, tally[<<x, y>>])
  BY DEF IndexGood
<1>2. tl \in [Words \X Articles -> Nat]
  <2> DEFINE wu == <<w, u>>
  <2>1. tl = IF w \in Words THEN [tally EXCEPT ![wu] = @ + 1] ELSE tally
    OBVIOUS
  <2> HIDE DEF wu
  <2>2. [tally EXCEPT ![wu] = @ + 1] \in [Words \X Articles -> Nat]
    <3>1. CASE wu \in DOMAIN tally
      <4>1. tally[wu] + 1 \in Nat
        BY <1>1, <3>1
      <4> QED BY <1>1, <3>1, <4>1
    <3>2. CASE wu \notin DOMAIN tally
      BY <1>1, <3>2
    <3> QED BY <3>1, <3>2
  <2> QED BY <1>1, <2>1, <2>2
<1>3. \A x \in Words, y \in Articles :
         tl[<<x, y>>] = IF x = w /\ y = u THEN tally[<<x, y>>] + 1 ELSE tally[<<x, y>>]
  <2> SUFFICES ASSUME NEW x \in Words, NEW y \in Articles
               PROVE  tl[<<x, y>>] = IF x = w /\ y = u THEN tally[<<x, y>>] + 1 ELSE tally[<<x, y>>]
    OBVIOUS
  <2>1. <<x, y>> \in DOMAIN tally /\ (<<x, y>> = <<w, u>> <=> x = w /\ y = u)
    BY <1>1
  <2> QED BY <2>1
<1>4. WorthIndexing(w) <=> w \in Worth
  BY DEF WorthIndexing, Worth
<1>5. CASE w \notin Worth
  <2>1. IndexWord(w, u) = idx
    BY <1>4, <1>5 DEF IndexWord
  <2>2. \A x \in Worth, y \in Articles : tl[<<x, y>>] = tally[<<x, y>>]
    BY <1>3, <1>5 DEF Worth
  <2> QED BY <1>1, <1>2, <2>1, <2>2 DEF IndexGood
<1>6. CASE w \in Worth
  <2> DEFINE v == VectorOf(idx, w)
             t == Counted(v, u)
             ix == IndexWord(w, u)
  <2>1. ix = [x \in DOMAIN idx \cup {w} |-> IF x # w THEN idx[x] ELSE t]
    BY <1>4, <1>6 DEF IndexWord, VectorOf
  <2>2. GoodVector(v)
    <3>1. GoodVector(<<>>)
      <4>1. IsSeq(<<>>) /\ DOMAIN <<>> = {}
        BY EmptySeq DEF IsSeq
      <4> QED BY <4>1 DEF GoodVector
    <3>2. CASE w \in DOMAIN idx
      BY <1>1, <3>2 DEF VectorOf
    <3>3. CASE w \notin DOMAIN idx
      BY <3>1, <3>3 DEF VectorOf
    <3> QED BY <3>2, <3>3
  <2>3. /\ GoodVector(t) /\ t # <<>>
        /\ \A x : \A k \in Nat : Has(v, x, k) => Has(t, x, IF x = u THEN k + 1 ELSE k)
    BY <2>2, CountedFacts
  <2> HIDE DEF t, ix
  <2>4. DOMAIN ix \subseteq Worth /\ \A x \in DOMAIN ix : GoodVector(ix[x]) /\ ix[x] # <<>>
    BY <1>1, <1>6, <2>1, <2>3
  <2>5. ASSUME NEW x \in Worth, NEW y \in Articles
        PROVE  Has(VectorOf(ix, x), y, tl[<<x, y>>])
    <3>1. /\ Has(VectorOf(idx, x), y, tally[<<x, y>>])
          /\ tally[<<x, y>>] \in Nat
          /\ tl[<<x, y>>] = IF x = w /\ y = u THEN tally[<<x, y>>] + 1 ELSE tally[<<x, y>>]
      BY <1>1, <1>3 DEF Worth
    <3>2. CASE x = w
      <4>1. VectorOf(ix, x) = t
        BY <2>1, <3>2 DEF VectorOf
      <4>2. tl[<<x, y>>] = IF y = u THEN tally[<<x, y>>] + 1 ELSE tally[<<x, y>>]
        BY <3>1, <3>2
      <4>3. Has(v, y, tally[<<x, y>>])
        BY <3>1, <3>2
      <4>4. Has(t, y, IF y = u THEN tally[<<x, y>>] + 1 ELSE tally[<<x, y>>])
        <5> HIDE DEF v
        <5> QED BY <2>3, <3>1, <4>3
      <4> QED BY <4>1, <4>2, <4>4
    <3>3. CASE x # w
      <4>1. VectorOf(ix, x) = VectorOf(idx, x)
        BY <2>1, <3>3 DEF VectorOf
      <4> QED BY <3>1, <3>3, <4>1
    <3> QED BY <3>2, <3>3
  <2>6. IndexGood(ix, tl)
    BY <1>2, <2>4, <2>5 DEF IndexGood
  <2> QED BY <2>6 DEF ix
<1> QED BY <1>5, <1>6

\* Sorting a vector for a query changes no count.
LEMMA SortedGood ==
    ASSUME IndexGood(idx, tally), NEW w \in DOMAIN idx, NEW p \in Bijection(DOMAIN idx[w], DOMAIN idx[w]),
           NEW ix, ix = [idx EXCEPT ![w] = [n \in DOMAIN idx[w] |-> idx[w][p[n]]]]
    PROVE  IndexGood(ix, tally)
<1> DEFINE v == idx[w]
           t == [n \in DOMAIN v |-> v[p[n]]]
<1>1. GoodVector(v) /\ v # <<>> /\ IsSeq(v)
  BY DEF IndexGood, GoodVector
<1>2. ix = [idx EXCEPT ![w] = t]
  OBVIOUS
<1>3. /\ \A n \in DOMAIN v : p[n] \in DOMAIN v
      /\ \A n \in DOMAIN v : \E m \in DOMAIN v : p[m] = n
      /\ \A m, n \in DOMAIN v : p[m] = p[n] => m = n
  <2>1. p \in Injection(DOMAIN v, DOMAIN v) /\ p \in Surjection(DOMAIN v, DOMAIN v)
    BY DEF Bijection
  <2> HIDE DEF v
  <2> QED BY <2>1 DEF Injection, Surjection, IsInjective
<1> HIDE DEF v
<1>4. DOMAIN t = DOMAIN v /\ \A n \in DOMAIN v : t[n] = v[p[n]]
  OBVIOUS
<1>5. IsSeq(t)
  <2>1. PICK S : v \in Seq(S)
    BY <1>1 DEF IsSeq
  <2>2. DOMAIN v = 1..Len(v) /\ Len(v) \in Nat /\ \A n \in DOMAIN v : v[n] \in S
    BY <2>1
  <2>3. t \in [1..Len(v) -> S]
    BY <1>3, <2>2
  <2>4. t \in Seq(S)
    BY <2>2, <2>3
  <2> QED BY <2>4 DEF IsSeq
<1> HIDE DEF t
<1>6. GoodVector(t)
  <2>1. ASSUME NEW n \in DOMAIN t
        PROVE  t[n] = [url |-> t[n].url, cnt |-> t[n].cnt] /\ t[n].cnt \in Nat
    <3>1. p[n] \in DOMAIN v /\ t[n] = v[p[n]]
      BY <1>3, <1>4
    <3> QED BY <1>1, <3>1 DEF GoodVector
  <2>2. ASSUME NEW m \in DOMAIN t, NEW n \in DOMAIN t, t[m].url = t[n].url PROVE m = n
    <3>1. /\ p[m] \in DOMAIN v /\ t[m] = v[p[m]]
          /\ p[n] \in DOMAIN v /\ t[n] = v[p[n]]
      BY <1>3, <1>4
    <3>2. p[m] = p[n]
      BY <1>1, <2>2, <3>1 DEF GoodVector
    <3> QED BY <1>3, <1>4, <3>2
  <2> QED BY <1>5, <2>1, <2>2 DEF GoodVector
<1>7. t # <<>>
  <2>1. PICK n : n \in DOMAIN v
    BY <1>1, SeqFacts
  <2> QED BY <1>4, <2>1
<1>8. \A u, k : Has(v, u, k) => Has(t, u, k)
  <2> SUFFICES ASSUME NEW u, NEW k, Has(v, u, k) PROVE Has(t, u, k)
    OBVIOUS
  <2>1. CASE k = 0
    <3>1. ASSUME NEW n \in DOMAIN t PROVE t[n].url # u
      <4>1. p[n] \in DOMAIN v /\ t[n] = v[p[n]]
        BY <1>3, <1>4
      <4> QED BY <2>1, <4>1 DEF Has
    <3> QED BY <2>1, <3>1 DEF Has
  <2>2. CASE k # 0
    <3>1. PICK n \in DOMAIN v : v[n].url = u /\ v[n].cnt = k
      BY <2>2 DEF Has
    <3>2. PICK m \in DOMAIN v : p[m] = n
      BY <1>3
    <3> QED BY <1>4, <2>2, <3>1, <3>2 DEF Has
  <2> QED BY <2>1, <2>2
<1>9. /\ DOMAIN ix = DOMAIN idx /\ ix[w] = t
      /\ \A x \in DOMAIN idx : x # w => ix[x] = idx[x]
  BY <1>2
<1>10. \A x \in Worth : \/ VectorOf(ix, x) = VectorOf(idx, x)
                        \/ VectorOf(ix, x) = t /\ VectorOf(idx, x) = v
  BY <1>9 DEF VectorOf, v
<1>11. \A x \in Worth, u \in Articles : Has(VectorOf(ix, x), u, tally[<<x, u>>])
  BY <1>8, <1>10 DEF IndexGood
<1> QED BY <1>6, <1>7, <1>9, <1>11 DEF IndexGood

LEMMA IndexInvInit == AggInit => IndexInv
<1> SUFFICES ASSUME AggInit PROVE IndexInv
  OBVIOUS
<1>1. idx = <<>> /\ DOMAIN <<>> = {} /\ DOMAIN idx = {}
  BY DEF AggInit, Unstarted
<1>2. tally = [wu \in Words \X Articles |-> 0]
  BY DEF AggInit, Unstarted
<1>3. \A w : VectorOf(idx, w) = <<>>
  BY <1>1 DEF VectorOf
<1>4. \A w \in Worth, u \in Articles : tally[<<w, u>>] = 0
  BY <1>2 DEF Worth
<1>5. IndexGood(idx, tally)
  BY <1>1, <1>2, <1>3, <1>4 DEF IndexGood, Has
<1>6. StopWordsFirst
  BY DEF StopWordsFirst, AggInit, Unstarted
<1> QED BY <1>5, <1>6 DEF IndexInv

\* The calls go on; the index and the feeds stay as they are.
LEMMA CallsKeepIndex ==
    ASSUME IndexInv, calls # <<>>, UNCHANGED <<stop, nextFeed, idx, tally>>
    PROVE  IndexInv'
BY DEF IndexInv, StopWordsFirst, IndexGood

LEMMA IndexInvStep == IndexInv /\ [AggNext]_aggVars => IndexInv'
<1> SUFFICES ASSUME IndexInv, [AggNext]_aggVars PROVE IndexInv'
  OBVIOUS
<1>1. StopWordsFirst /\ IndexGood(idx, tally)
  BY DEF IndexInv
<1>2. CASE GetStopWords
  <2>1. IndexGood(idx, tally)'
    BY <1>1, <1>2 DEF GetStopWords, IndexGood
  <2> QED BY <1>1, <1>2, <2>1 DEF GetStopWords, IndexInv, StopWordsFirst
<1>3. CASE BuildIndices
  <2>1. nextFeed \in 1..Len(FeedsFile) /\ Len(FeedsFile) \in Nat
    BY <1>3, FeedsAssumption DEF BuildIndices
  <2>2. /\ nextFeed' = nextFeed + 1 /\ stop' = stop /\ idx' = idx /\ tally' = tally
    BY <1>3 DEF BuildIndices
  <2>3. IndexGood(idx, tally)'
    BY <1>1, <2>2 DEF IndexGood
  <2>4. StopWordsFirst'
    BY <1>1, <2>1, <2>2 DEF StopWordsFirst
  <2> QED BY <2>3, <2>4 DEF IndexInv
<1>4. ASSUME NEW a, ProcessFeed(a) \/ ParseArticle(a) PROVE IndexInv'
  BY <1>4, CallsKeepIndex DEF ProcessFeed, ParseArticle, In
<1>5. CASE Parse \/ FeedRead \/ SearchArticle \/ Return
  BY <1>5, CallsKeepIndex DEF Parse, FeedRead, SearchArticle, Return, In
<1>6. CASE ScanArticle
  <2> DEFINE u == Top.url
             w == Text[u][Top.pos + 1]
  <2>1. calls # <<>> /\ stop' = stop /\ nextFeed' = nextFeed
    BY <1>6 DEF ScanArticle, In
  <2>2. \/ idx' = idx /\ tally' = tally
        \/ /\ idx' = IndexWord(w, u)
           /\ tally' = IF w \in Words THEN [tally EXCEPT ![<<w, u>>] = @ + 1] ELSE tally
    BY <1>6 DEF ScanArticle
  <2> HIDE DEF u, w
  <2>3. stop = ToSet(StopWordsFile) /\ nextFeed # 0
    BY <1>1, <2>1 DEF StopWordsFirst
  <2>4. IndexGood(idx', tally')
    <3>1. CASE idx' = idx /\ tally' = tally
      BY <1>1, <3>1
    <3>2. CASE /\ idx' = IndexWord(w, u)
               /\ tally' = IF w \in Words THEN [tally EXCEPT ![<<w, u>>] = @ + 1] ELSE tally
      BY <1>1, <2>3, <3>2, ReadGood
    <3> QED BY <2>2, <3>1, <3>2
  <2>5. IndexGood(idx, tally)'
    BY <2>4 DEF IndexGood
  <2> QED BY <1>1, <2>1, <2>3, <2>5 DEF IndexInv, StopWordsFirst
<1>7. ASSUME NEW w \in Words, ProcessResponse(w) PROVE IndexInv'
  <2>1. w \in DOMAIN idx /\ tally' = tally /\ stop' = stop /\ nextFeed' = nextFeed
    BY <1>7 DEF ProcessResponse
  <2>2. nextFeed # 0
    BY <1>1, <2>1 DEF StopWordsFirst
  <2>3. PICK p \in Bijection(DOMAIN idx[w], DOMAIN idx[w]) :
           idx' = [idx EXCEPT ![w] = [n \in DOMAIN idx[w] |-> idx[w][p[n]]]]
    BY <1>7 DEF ProcessResponse
  <2>4. IndexGood(idx', tally)
    BY <1>1, <2>1, <2>3, SortedGood
  <2>5. IndexGood(idx, tally)'
    BY <2>1, <2>4 DEF IndexGood
  <2> QED BY <1>1, <2>1, <2>2, <2>5 DEF IndexInv, StopWordsFirst
<1>8. CASE UNCHANGED aggVars
  BY <1>1, <1>8 DEF aggVars, IndexInv, StopWordsFirst, IndexGood
<1> QED BY <1>2, <1>3, <1>4, <1>5, <1>6, <1>7, <1>8 DEF AggNext

\* The index is exactly what was read: each word that is no stop word has each
\* article it was read in once, with the number of times, and nothing else.
THEOREM IndexedExactly == AggSpec => []IndexExact
<1>1. IndexInv => IndexExact
  <2> SUFFICES ASSUME IndexInv PROVE IndexExact
    OBVIOUS
  <2>1. /\ \A w \in DOMAIN idx : w \in Worth /\ GoodVector(idx[w]) /\ idx[w] # <<>>
        /\ \A w \in Worth, u \in Articles : Has(VectorOf(idx, w), u, tally[<<w, u>>])
    BY DEF IndexInv, IndexGood
  <2>2. ASSUME NEW w \in Worth, NEW u \in Articles
        PROVE  LET at == {n \in DOMAIN VectorOf(idx, w) : VectorOf(idx, w)[n].url = u}
               IN  IF tally[<<w, u>>] = 0 THEN at = {}
                   ELSE /\ Cardinality(at) = 1
                        /\ \A n \in at : VectorOf(idx, w)[n].cnt = tally[<<w, u>>]
    <3> DEFINE v == VectorOf(idx, w)
               at == {n \in DOMAIN v : v[n].url = u}
               k == tally[<<w, u>>]
    <3>1. Has(v, u, k)
      BY <2>1
    <3>2. \A m, n \in DOMAIN v : v[m].url = v[n].url => m = n
      <4>1. CASE w \in DOMAIN idx
        BY <2>1, <4>1 DEF VectorOf, GoodVector
      <4>2. CASE w \notin DOMAIN idx
        BY <4>2 DEF VectorOf
      <4> QED BY <4>1, <4>2
    <3> HIDE DEF v, k
    <3>3. CASE k = 0
      BY <3>1, <3>3 DEF Has, v, k
    <3>4. CASE k # 0
      <4>1. PICK n \in DOMAIN v : v[n].url = u /\ v[n].cnt = k
        BY <3>1, <3>4 DEF Has
      <4>2. at = {n}
        BY <3>2, <4>1
      <4>3. Cardinality({n}) = 1
        BY FS_Singleton
      <4> QED BY <3>4, <4>1, <4>2, <4>3 DEF v, k
    <3> QED BY <3>3, <3>4
  <2> QED BY <2>1, <2>2 DEF IndexExact, Worth, VectorOf
<1> QED BY <1>1, IndexInvInit, IndexInvStep, PTL DEF AggSpec
-----------------------------------------------------------------------------
(* The parser's callbacks: what an item has when it ends *)

StartsAt(events, k) == k \in DOMAIN events /\ events[k].kind = "start"

\* The open elements start after one another, each inside the one before.
OpenGood ==
    /\ IsSeq(open)
    /\ \A n \in 1..Len(open) : StartsAt(read, open[n])
    /\ \A m, n \in 1..Len(open) : m < n => open[m] < open[n]
    /\ \A n \in 1..Len(open) : parent[open[n]] = IF n = 1 THEN 0 ELSE open[n - 1]

DocumentGood ==
    /\ IsSeq(read) /\ IsSeq(parent) /\ Len(parent) = Len(read)
    /\ \A k \in 1..Len(read) : parent[k] \in 0..(k - 1)
    /\ OpenGood
    /\ \A n \in 1..Len(open), k \in 1..Len(read) : open[n] < k => open[n] <= parent[k]

ItemGood ==
    /\ item = [title |-> item.title, link |-> item.link, active |-> item.active]
    /\ IsSeq(item.title) /\ IsSeq(item.link)
    /\ item.active \in Fields \cup {NoField}

\* The element i, if it is a plain item, has what was written in it so far, and
\* text goes where the innermost open element says.
Collects(i) ==
    read[i].what = "item" /\ Plain(i) =>
        /\ Spells(item.title, read, Written(i, "title"))
        /\ Spells(item.link, read, Written(i, "link"))
        /\ item.active = IF read[Last(open)].what \in Fields THEN read[Last(open)].what
                         ELSE NoField

FeedInv == /\ DocumentGood
           /\ ItemGood
           /\ IsSeq(handed)
           /\ \A n \in 1..Len(open) : Collects(open[n])
           /\ ItemsAsWritten

LEMMA InsideFacts ==
    ASSUME DocumentGood
    PROVE  /\ Inside \in 0..Len(read)
           /\ open # <<>> => Inside = open[Len(open)] /\ Len(open) \in 1..Len(open)
                             /\ Inside = Last(open)
           /\ open = <<>> <=> Len(open) = 0
           /\ open = <<>> => Inside = 0
           /\ Inside # 0 => open # <<>>
           /\ \A n \in 1..Len(open) : open[n] \in 1..Len(read) /\ open[n] <= Inside
<1>1. IsSeq(open) /\ IsSeq(read) BY DEF DocumentGood, OpenGood
<1>2. PICK S : open \in Seq(S) BY <1>1 DEF IsSeq
<1>3. /\ Len(open) \in Nat /\ (open = <<>> <=> Len(open) = 0)
      /\ open # <<>> => Len(open) \in 1..Len(open) /\ Last(open) = open[Len(open)]
  BY <1>2 DEF Last
<1>4. Len(read) \in Nat /\ DOMAIN read = 1..Len(read) BY <1>1, SeqFacts
<1>5. ASSUME NEW n \in 1..Len(open)
      PROVE  open[n] \in 1..Len(read) /\ open[n] <= open[Len(open)]
  <2>1. open[n] \in 1..Len(read) /\ Len(open) \in 1..Len(open)
    BY <1>3, <1>4 DEF DocumentGood, OpenGood, StartsAt
  <2>2. open[Len(open)] \in 1..Len(read)
    BY <2>1, <1>4 DEF DocumentGood, OpenGood, StartsAt
  <2>3. n < Len(open) => open[n] < open[Len(open)]
    BY <2>1 DEF DocumentGood, OpenGood
  <2> QED BY <1>3, <2>1, <2>2, <2>3
<1> QED BY <1>3, <1>4, <1>5 DEF Inside

\* What a callback does to the events read.
LEMMA ReportedFacts ==
    ASSUME DocumentGood, NEW e, Reported(e)
    PROVE  LET k == Len(read) + 1 IN
           /\ Len(read) \in Nat /\ Len(read') = k /\ Len(parent') = k
           /\ DOMAIN read = 1..Len(read) /\ DOMAIN read' = 1..k
           /\ IsSeq(read') /\ IsSeq(parent')
           /\ \A j \in 1..Len(read) : read'[j] = read[j] /\ parent'[j] = parent[j]
           /\ read'[k] = e /\ parent'[k] = Inside
           /\ Last(read') = e /\ Last(parent') = Inside
<1>1. IsSeq(read) /\ IsSeq(parent) /\ Len(parent) = Len(read) BY DEF DocumentGood
<1>2. read' = Append(read, e) /\ parent' = Append(parent, Inside) BY DEF Reported
<1>3. /\ IsSeq(read') /\ Len(read') = Len(read) + 1 /\ read'[Len(read) + 1] = e
      /\ \A n \in 1..Len(read) : read'[n] = read[n]
  BY <1>1, <1>2, AppendFacts
<1>4. /\ IsSeq(parent') /\ Len(parent') = Len(parent) + 1 /\ parent'[Len(parent) + 1] = Inside
      /\ \A n \in 1..Len(parent) : parent'[n] = parent[n]
  BY <1>1, <1>2, AppendFacts
<1>5. Len(read) \in Nat /\ DOMAIN read = 1..Len(read) BY <1>1, SeqFacts
<1>6. DOMAIN read' = 1..Len(read') BY <1>3, SeqFacts
<1>7. Last(read') = read'[Len(read')] /\ Last(parent') = parent'[Len(parent')] BY DEF Last
<1> QED BY <1>1, <1>3, <1>4, <1>5, <1>6, <1>7

LEMMA OpenStep ==
    ASSUME DocumentGood, NEW e, Reported(e), e.kind = "end" => open # <<>>
    PROVE  /\ OpenGood'
           /\ e.kind = "start" =>
                /\ Len(open') = Len(open) + 1 /\ open'[Len(open) + 1] = Len(read) + 1
                /\ \A n \in 1..Len(open) : open'[n] = open[n]
           /\ e.kind = "end" =>
                /\ Len(open') = Len(open) - 1
                /\ \A n \in 1..Len(open') : open'[n] = open[n]
           /\ e.kind \notin {"start", "end"} => open' = open
<1> DEFINE k == Len(read) + 1
<1>1. OpenGood /\ IsSeq(open) BY DEF DocumentGood, OpenGood
<1>2. /\ Len(read) \in Nat /\ DOMAIN read = 1..Len(read) /\ DOMAIN read' = 1..k
      /\ \A j \in 1..Len(read) : read'[j] = read[j] /\ parent'[j] = parent[j]
      /\ read'[k] = e /\ parent'[k] = Inside
  BY ReportedFacts
<1>3. Len(open) \in Nat BY <1>1, SeqFacts
<1>4. \A n \in 1..Len(open) : open[n] \in 1..Len(read) BY InsideFacts
<1>5. ASSUME NEW n \in 1..Len(open)
      PROVE  /\ StartsAt(read', open[n])
             /\ parent'[open[n]] = IF n = 1 THEN 0 ELSE open[n - 1]
  <2>1. StartsAt(read, open[n]) /\ parent[open[n]] = IF n = 1 THEN 0 ELSE open[n - 1]
    BY <1>1 DEF OpenGood
  <2>2. open[n] \in DOMAIN read' /\ read'[open[n]] = read[open[n]] BY <1>2, <1>4
  <2>3. parent'[open[n]] = parent[open[n]] BY <1>2, <1>4
  <2> QED BY <2>1, <2>2, <2>3 DEF StartsAt
<1>6. CASE e.kind = "start"
  <2>1. open' = Append(open, k) BY <1>6 DEF Reported
  <2>2. /\ IsSeq(open') /\ Len(open') = Len(open) + 1
        /\ \A n \in 1..Len(open) : open'[n] = open[n]
        /\ open'[Len(open) + 1] = k
    BY <1>1, <2>1, AppendFacts
  <2> DEFINE N == Len(open)
  <2>3. StartsAt(read', k) BY <1>2, <1>6 DEF StartsAt
  <2>4. parent'[k] = IF N + 1 = 1 THEN 0 ELSE open[N]
    <3>1. N = 0 => Inside = 0 BY <1>3, InsideFacts
    <3>2. N # 0 => Inside = open[N] BY <1>3, InsideFacts
    <3> QED BY <1>2, <1>3, <3>1, <3>2
  <2> HIDE DEF k
  <2>5. \A n \in 1..Len(open') : StartsAt(read', open'[n])
    <3> SUFFICES ASSUME NEW n \in 1..(N + 1) PROVE StartsAt(read', open'[n])
      BY <2>2
    <3>1. CASE n = N + 1
      <4>1. open'[n] = k BY <2>2, <3>1
      <4> QED BY <2>3, <4>1 DEF StartsAt
    <3>2. CASE n \in 1..N
      <4>1. open'[n] = open[n] BY <2>2, <3>2
      <4>2. StartsAt(read', open[n]) BY <1>5, <3>2
      <4> QED BY <4>1, <4>2 DEF StartsAt
    <3> QED BY <1>3, <3>1, <3>2
  <2>6. \A m, n \in 1..Len(open') : m < n => open'[m] < open'[n]
    <3> SUFFICES ASSUME NEW m \in 1..(N + 1), NEW n \in 1..(N + 1), m < n
                 PROVE  open'[m] < open'[n]
      BY <2>2
    <3>1. m \in 1..N /\ open'[m] = open[m] BY <1>3, <2>2
    <3>2. CASE n = N + 1 BY <1>2, <1>4, <2>2, <3>1, <3>2 DEF k
    <3>3. CASE n \in 1..N
      <4>1. open'[n] = open[n] BY <2>2, <3>3
      <4> QED BY <1>1, <3>1, <3>3, <4>1 DEF OpenGood
    <3> QED BY <1>3, <3>2, <3>3
  <2>7. \A n \in 1..Len(open') : parent'[open'[n]] = IF n = 1 THEN 0 ELSE open'[n - 1]
    <3> SUFFICES ASSUME NEW n \in 1..(N + 1)
                 PROVE  parent'[open'[n]] = IF n = 1 THEN 0 ELSE open'[n - 1]
      BY <2>2
    <3>1. n # 1 => n - 1 \in 1..N /\ open'[n - 1] = open[n - 1] BY <1>3, <2>2
    <3>2. CASE n = N + 1 BY <1>3, <2>2, <2>4, <3>1, <3>2
    <3>3. CASE n \in 1..N
      <4>1. open'[n] = open[n] BY <2>2, <3>3
      <4>2. parent'[open[n]] = IF n = 1 THEN 0 ELSE open[n - 1] BY <1>5, <3>3
      <4> QED BY <3>1, <4>1, <4>2
    <3> QED BY <1>3, <3>2, <3>3
  <2>8. OpenGood' BY <2>2, <2>5, <2>6, <2>7 DEF OpenGood
  <2> QED BY <1>6, <2>2, <2>8 DEF k
<1>7. CASE e.kind = "end"
  <2>1. open' = Front(open) /\ open # <<>> BY <1>7 DEF Reported
  <2>2. /\ IsSeq(open') /\ Len(open') = Len(open) - 1
        /\ \A n \in 1..(Len(open) - 1) : open'[n] = open[n]
    BY <1>1, <2>1, FrontFacts
  <2>3. \A n \in 1..Len(open') : /\ open'[n] = open[n] /\ n \in 1..Len(open)
                                 /\ n # 1 => open'[n - 1] = open[n - 1]
    BY <1>3, <2>2
  <2>4. \A n \in 1..Len(open') : StartsAt(read', open'[n])
    <3> SUFFICES ASSUME NEW n \in 1..Len(open') PROVE StartsAt(read', open'[n]) OBVIOUS
    <3>1. StartsAt(read', open[n]) BY <1>5, <2>3
    <3> QED BY <2>3, <3>1 DEF StartsAt
  <2>5. \A n \in 1..Len(open') : parent'[open'[n]] = IF n = 1 THEN 0 ELSE open'[n - 1]
    BY <1>5, <2>3
  <2>6. \A m, n \in 1..Len(open') : m < n => open'[m] < open'[n]
    BY <1>1, <2>3 DEF OpenGood
  <2>7. OpenGood' BY <2>2, <2>4, <2>5, <2>6 DEF OpenGood
  <2> QED BY <1>7, <2>2, <2>3, <2>7
<1>8. CASE e.kind \notin {"start", "end"}
  <2>1. open' = open BY <1>8 DEF Reported
  <2>2. \A n \in 1..Len(open') : StartsAt(read', open'[n])
    <3> SUFFICES ASSUME NEW n \in 1..Len(open) PROVE StartsAt(read', open'[n]) BY <2>1
    <3>1. StartsAt(read', open[n]) BY <1>5
    <3> QED BY <2>1, <3>1 DEF StartsAt
  <2>3. OpenGood' BY <1>1, <1>5, <2>1, <2>2 DEF OpenGood
  <2> QED BY <1>8, <2>1, <2>3
<1> QED BY <1>6, <1>7, <1>8

LEMMA DocumentStep ==
    ASSUME DocumentGood, NEW e, Reported(e), e.kind = "end" => open # <<>>
    PROVE  DocumentGood'
<1>1. OpenGood' BY OpenStep
<1>2. /\ Len(read) \in Nat /\ Len(read') = Len(read) + 1 /\ Len(parent') = Len(read) + 1
      /\ IsSeq(read') /\ IsSeq(parent')
      /\ \A j \in 1..Len(read) : parent'[j] = parent[j]
      /\ parent'[Len(read) + 1] = Inside
  BY ReportedFacts
<1>3. \A j \in 1..Len(read) : parent[j] \in 0..(j - 1) BY DEF DocumentGood
<1>4. Inside \in 0..Len(read) BY InsideFacts
<1>5. \A j \in 1..Len(read') : parent'[j] \in 0..(j - 1) BY <1>2, <1>3, <1>4
<1>6. \A n \in 1..Len(open), j \in 1..Len(read') : open[n] < j => open[n] <= parent'[j]
  <2> SUFFICES ASSUME NEW n \in 1..Len(open), NEW j \in 1..Len(read'), open[n] < j
               PROVE  open[n] <= parent'[j]
    OBVIOUS
  <2>1. open[n] <= Inside BY InsideFacts
  <2>2. j \in 1..Len(read) => open[n] <= parent[j] BY DEF DocumentGood
  <2> QED BY <1>2, <2>1, <2>2
<1>7. \A n \in 1..Len(open') :
         \/ n \in 1..Len(open) /\ open'[n] = open[n]
         \/ open'[n] = Len(read')
  <2>1. Len(open) \in Nat BY SeqFacts DEF DocumentGood, OpenGood
  <2> QED BY <1>2, <2>1, OpenStep
<1>8. \A n \in 1..Len(open'), j \in 1..Len(read') : open'[n] < j => open'[n] <= parent'[j]
  BY <1>2, <1>6, <1>7
<1> QED BY <1>1, <1>2, <1>5, <1>8 DEF DocumentGood

\* A plain item was plain before, and a tag that starts in it keeps to it.
LEMMA PlainStep ==
    ASSUME DocumentGood, NEW e, Reported(e), NEW n \in 1..Len(open), NEW i, i = open[n],
           Plain(i)'
    PROVE  /\ Plain(i)
           /\ e.kind = "start" => /\ e.what # "item"
                                  /\ e.what \in Fields => Inside = i
                                  /\ Inside # i => read[Inside].what \notin Fields
<1> DEFINE k == Len(read) + 1
<1>1. /\ Len(read) \in Nat /\ Len(read') = k
      /\ \A j \in 1..Len(read) : read'[j] = read[j] /\ parent'[j] = parent[j]
      /\ read'[k] = e /\ parent'[k] = Inside
  BY ReportedFacts
<1>2. i \in 1..Len(read) /\ i <= Inside /\ Inside \in 0..Len(read) BY InsideFacts
<1>3. \A j \in (i + 1)..k : read'[j].kind = "start" =>
        /\ read'[j].what # "item"
        /\ read'[j].what \in Fields => parent'[j] = i
        /\ parent'[j] # i => read'[parent'[j]].what \notin Fields
  BY <1>1 DEF Plain
<1>4. Plain(i)
  <2> SUFFICES ASSUME NEW j \in (i + 1)..Len(read), read[j].kind = "start"
               PROVE  /\ read[j].what # "item"
                      /\ read[j].what \in Fields => parent[j] = i
                      /\ parent[j] # i => read[parent[j]].what \notin Fields
    BY DEF Plain
  <2>1. j \in 1..Len(read) /\ j \in (i + 1)..k /\ i < j BY <1>1, <1>2
  <2>2. i <= parent[j] /\ parent[j] \in 0..(j - 1) BY <2>1 DEF DocumentGood
  <2>3. parent[j] \in 1..Len(read) BY <1>2, <2>1, <2>2
  <2>4. read'[j] = read[j] /\ parent'[j] = parent[j] /\ read'[parent[j]] = read[parent[j]]
    BY <1>1, <2>1, <2>3
  <2> HIDE DEF k
  <2> QED BY <1>3, <2>1, <2>4
<1>5. k \in (i + 1)..k /\ Inside \in 1..Len(read) BY <1>1, <1>2
<1>6. read'[Inside] = read[Inside] BY <1>1, <1>5
<1> HIDE DEF k
<1> QED BY <1>1, <1>3, <1>4, <1>5, <1>6

\* The text collected for a child of i.
LEMMA WrittenStep ==
    ASSUME DocumentGood, NEW e, Reported(e), NEW i \in 1..Len(read), NEW field
    PROVE  /\ Written(i, field) \subseteq 1..Len(read)
           /\ Written(i, field)' =
                IF /\ e.kind = "text" /\ Inside > 0
                   /\ read[Inside].what = field /\ parent[Inside] = i
                THEN Written(i, field) \cup {Len(read) + 1} ELSE Written(i, field)
<1> DEFINE k == Len(read) + 1
           Lies(rd, pa, j) == /\ rd[j].kind = "text" /\ pa[j] > 0
                              /\ rd[pa[j]].what = field /\ pa[pa[j]] = i
<1>1. /\ Len(read) \in Nat /\ DOMAIN read = 1..Len(read) /\ DOMAIN read' = 1..k
      /\ \A j \in 1..Len(read) : read'[j] = read[j] /\ parent'[j] = parent[j]
      /\ read'[k] = e /\ parent'[k] = Inside
  BY ReportedFacts
<1>2. Written(i, field) = {j \in 1..Len(read) : Lies(read, parent, j)}
  BY <1>1 DEF Written
<1>3. Written(i, field)' = {j \in 1..k : Lies(read', parent', j)}
  BY <1>1 DEF Written
<1>4. ASSUME NEW j \in 1..Len(read) PROVE Lies(read', parent', j) <=> Lies(read, parent, j)
  <2>1. read'[j] = read[j] /\ parent'[j] = parent[j] /\ parent[j] \in 0..(j - 1)
    BY <1>1 DEF DocumentGood
  <2>2. CASE parent[j] = 0 BY <2>1, <2>2
  <2>3. CASE parent[j] # 0
    <3>1. parent[j] \in 1..Len(read) BY <1>1, <2>1, <2>3
    <3>2. read'[parent[j]] = read[parent[j]] /\ parent'[parent[j]] = parent[parent[j]]
      BY <1>1, <3>1
    <3> QED BY <2>1, <3>2
  <2> QED BY <2>2, <2>3
<1>5. Lies(read', parent', k) <=> /\ e.kind = "text" /\ Inside > 0
                                  /\ read[Inside].what = field /\ parent[Inside] = i
  <2>1. Inside \in 0..Len(read) BY InsideFacts
  <2>2. CASE Inside = 0 BY <1>1, <2>2
  <2>3. CASE Inside # 0
    <3>1. Inside \in 1..Len(read) BY <1>1, <2>1, <2>3
    <3>2. read'[Inside] = read[Inside] /\ parent'[Inside] = parent[Inside] BY <1>1, <3>1
    <3> QED BY <1>1, <3>2
  <2> QED BY <2>2, <2>3
<1>6. 1..k = (1..Len(read)) \cup {k} /\ k \notin 1..Len(read) BY <1>1
<1> HIDE DEF k, Lies
<1>7. Written(i, field)' =
        IF Lies(read', parent', k) THEN Written(i, field) \cup {k} ELSE Written(i, field)
  BY <1>2, <1>3, <1>4, <1>6
<1> QED BY <1>2, <1>5, <1>7 DEF k

LEMMA SpellsNothing == ASSUME NEW events PROVE Spells(<<>>, events, {})
<1> DEFINE place == [n \in {} |-> 0]
<1>1. DOMAIN <<>> = {} OBVIOUS
<1>2. place \in [{} -> {}] OBVIOUS
<1> HIDE DEF place
<1> QED BY <1>1, <1>2 DEF Spells

LEMMA SpellsKept ==
    ASSUME NEW text, NEW events, NEW more, NEW places, Spells(text, events, places),
           \A k \in places : more[k] = events[k]
    PROVE  Spells(text, more, places)
<1>1. PICK place \in [DOMAIN text -> places] :
        /\ \A m, n \in DOMAIN text : m < n => place[m] < place[n]
        /\ \A k \in places : \E n \in DOMAIN text : place[n] = k
        /\ \A n \in DOMAIN text : text[n] = events[place[n]].what
  BY DEF Spells
<1>2. \A n \in DOMAIN text : text[n] = more[place[n]].what BY <1>1
<1> QED BY <1>1, <1>2 DEF Spells

LEMMA SpellsMore ==
    ASSUME NEW text, IsSeq(text), NEW events, NEW more, NEW N \in Nat,
           NEW places, places \subseteq 1..N, Spells(text, events, places),
           \A k \in places : more[k] = events[k]
    PROVE  Spells(Append(text, more[N + 1].what), more, places \cup {N + 1})
<1>1. PICK place \in [DOMAIN text -> places] :
        /\ \A m, n \in DOMAIN text : m < n => place[m] < place[n]
        /\ \A k \in places : \E n \in DOMAIN text : place[n] = k
        /\ \A n \in DOMAIN text : text[n] = events[place[n]].what
  BY DEF Spells
<1> DEFINE x == more[N + 1].what
           t == Append(text, x)
           L == Len(text)
           later == [n \in 1..(L + 1) |-> IF n = L + 1 THEN N + 1 ELSE place[n]]
<1>2. L \in Nat /\ DOMAIN text = 1..L BY SeqFacts
<1> HIDE DEF x
<1>3. IsSeq(t) /\ Len(t) = L + 1 /\ t[L + 1] = x /\ \A n \in 1..L : t[n] = text[n]
  BY AppendFacts
<1>4. DOMAIN t = 1..(L + 1) BY <1>3, SeqFacts
<1> HIDE DEF t, L
<1>5. \A n \in 1..L : place[n] \in places /\ place[n] \in 1..N BY <1>1, <1>2
<1>6. \A n \in 1..L : later[n] = place[n] BY <1>2
<1>7. later[L + 1] = N + 1 BY <1>2
<1>8. later \in [DOMAIN t -> places \cup {N + 1}]
  <2>1. \A n \in 1..(L + 1) : (IF n = L + 1 THEN N + 1 ELSE place[n]) \in places \cup {N + 1}
    BY <1>2, <1>5
  <2> QED BY <1>4, <2>1
<1> HIDE DEF later
<1>9. ASSUME NEW m \in 1..(L + 1), NEW n \in 1..(L + 1), m < n PROVE later[m] < later[n]
  <2>1. m \in 1..L /\ (n = L + 1 \/ n \in 1..L) BY <1>2, <1>9
  <2>2. CASE n = L + 1 BY <1>5, <1>6, <1>7, <2>1, <2>2
  <2>3. CASE n \in 1..L BY <1>1, <1>2, <1>6, <1>9, <2>1, <2>3
  <2> QED BY <2>1, <2>2, <2>3
<1>10. ASSUME NEW k \in places \cup {N + 1} PROVE \E n \in 1..(L + 1) : later[n] = k
  <2>1. CASE k = N + 1 BY <1>2, <1>7, <2>1
  <2>2. CASE k \in places
    <3>1. PICK n \in 1..L : place[n] = k BY <1>1, <1>2, <2>2
    <3>2. n \in 1..(L + 1) /\ later[n] = k BY <1>2, <1>6, <3>1
    <3> QED BY <3>2
  <2> QED BY <1>10, <2>1, <2>2
<1>11. ASSUME NEW n \in 1..(L + 1) PROVE t[n] = more[later[n]].what
  <2>1. n = L + 1 \/ n \in 1..L BY <1>2
  <2>2. CASE n = L + 1 BY <1>3, <1>7, <2>2 DEF x
  <2>3. CASE n \in 1..L
    <3>1. t[n] = text[n] /\ later[n] = place[n] /\ place[n] \in places
      BY <1>3, <1>5, <1>6, <2>3
    <3>2. text[n] = events[place[n]].what BY <1>1, <1>2, <2>3
    <3> QED BY <3>1, <3>2
  <2> QED BY <2>1, <2>2, <2>3
<1> DEFINE now == places \cup {N + 1}
<1>12. /\ \A m, n \in DOMAIN t : m < n => later[m] < later[n]
       /\ \A k \in now : \E n \in DOMAIN t : later[n] = k
       /\ \A n \in DOMAIN t : t[n] = more[later[n]].what
  BY <1>4, <1>9, <1>10, <1>11
<1>13. later \in [DOMAIN t -> now] BY <1>8
<1> HIDE DEF now
<1>14. Spells(t, more, now) BY <1>12, <1>13 DEF Spells
<1> QED BY <1>14 DEF t, x, now

LEMMA ItemIs ==
    ASSUME ItemGood
    PROVE  \A field, x :
             /\ [item EXCEPT !.active = x] = [title |-> item.title, link |-> item.link, active |-> x]
             /\ field = "title" =>
                  [item EXCEPT ![field] = x] = [title |-> x, link |-> item.link, active |-> item.active]
             /\ field = "link" =>
                  [item EXCEPT ![field] = x] = [title |-> item.title, link |-> x, active |-> item.active]
<1> DEFINE t == item.title
           l == item.link
           a == item.active
<1>1. item = [title |-> t, link |-> l, active |-> a] BY DEF ItemGood
<1> HIDE DEF t, l, a
<1> SUFFICES ASSUME NEW field, NEW x
             PROVE  /\ [item EXCEPT !.active = x] = [title |-> t, link |-> l, active |-> x]
                    /\ field = "title" =>
                         [item EXCEPT ![field] = x] = [title |-> x, link |-> l, active |-> a]
                    /\ field = "link" =>
                         [item EXCEPT ![field] = x] = [title |-> t, link |-> x, active |-> a]
  BY DEF t, l, a
<1>2. [item EXCEPT !.active = x] = [title |-> t, link |-> l, active |-> x] BY <1>1
<1>3. CASE field = "title" BY <1>1, <1>2, <1>3
<1>4. CASE field = "link" BY <1>1, <1>2, <1>4
<1> QED BY <1>2, <1>3, <1>4

\* A start tag: a new item has nothing yet, an open one goes on as it was.
LEMMA StartCollects ==
    ASSUME FeedInv, NEW name \in Tags, ProcessStartTag(name)
    PROVE  \A n \in 1..Len(open') : \A i : i = open'[n] => Collects(i)'
<1> DEFINE e == Event("start", name)
           k == Len(read) + 1
<1>1. DocumentGood /\ Reported(e) /\ e.kind = "start" /\ e.what = name
  BY DEF FeedInv, ProcessStartTag, Event
<1>2. item' = ItemStarted(name) BY DEF ProcessStartTag
<1> HIDE DEF e
<1>3. DocumentGood' BY <1>1, DocumentStep
<1>4. /\ Len(read) \in Nat /\ DOMAIN read' = 1..k
      /\ \A j \in 1..Len(read) : read'[j] = read[j] /\ parent'[j] = parent[j]
      /\ read'[k] = e /\ parent'[k] = Inside
  BY <1>1, ReportedFacts
<1>5. /\ Len(open') = Len(open) + 1 /\ open'[Len(open) + 1] = k
      /\ \A n \in 1..Len(open) : open'[n] = open[n]
      /\ IsSeq(open')
  BY <1>1, OpenStep DEF OpenGood
<1>6. Len(open) \in Nat BY <1>1, SeqFacts DEF DocumentGood, OpenGood
<1>7. Last(open') = k BY <1>5 DEF Last
<1>8. read'[Last(open')].what = name BY <1>1, <1>4, <1>7
<1> HIDE DEF k
<1>9. ASSUME NEW i, i = k PROVE Collects(i)'
  <2> SUFFICES ASSUME read'[i].what = "item"
               PROVE  /\ Spells(item'.title, read', Written(i, "title")')
                      /\ Spells(item'.link, read', Written(i, "link")')
                      /\ item'.active = IF read'[Last(open')].what \in Fields
                                        THEN read'[Last(open')].what ELSE NoField
    BY DEF Collects
  <2>1. name = "item" BY <1>1, <1>4, <1>9
  <2>2. item'.title = <<>> /\ item'.link = <<>> /\ item'.active = NoField
    BY <1>2, <2>1 DEF ItemStarted, ClearItem, Fields
  <2>3. ASSUME NEW field PROVE Written(i, field)' = {}
    <3>1. Written(i, field)' \subseteq
            {j \in 1..k : parent'[j] > 0 /\ parent'[parent'[j]] = i}
      BY <1>4 DEF Written
    <3>2. ASSUME NEW j \in 1..k, parent'[j] > 0 PROVE parent'[parent'[j]] # i
      <4>1. \A h \in 1..k : parent'[h] \in 0..(h - 1)
        BY <1>1, <1>3, ReportedFacts DEF DocumentGood, k
      <4>2. k \in Nat BY <1>4 DEF k
      <4>3. parent'[j] \in 1..k BY <3>2, <4>1, <4>2
      <4>4. parent'[parent'[j]] \in 0..(parent'[j] - 1) BY <4>1, <4>3
      <4> QED BY <1>9, <4>2, <4>3, <4>4
    <3> QED BY <3>1, <3>2
  <2>4. "item" \notin Fields BY DEF Fields
  <2> QED BY <1>8, <2>1, <2>2, <2>3, <2>4, SpellsNothing
<1>10. ASSUME NEW n \in 1..Len(open), NEW i, i = open[n] PROVE Collects(i)'
  <2> SUFFICES ASSUME read'[i].what = "item", Plain(i)'
               PROVE  /\ Spells(item'.title, read', Written(i, "title")')
                      /\ Spells(item'.link, read', Written(i, "link")')
                      /\ item'.active = IF read'[Last(open')].what \in Fields
                                        THEN read'[Last(open')].what ELSE NoField
    BY DEF Collects
  <2>1. /\ i \in 1..Len(read) /\ Inside = Last(open)
    BY <1>1, <1>6, <1>10, InsideFacts
  <2>2. /\ Plain(i) /\ name # "item"
        /\ name \in Fields => Inside = i
        /\ Inside # i => read[Inside].what \notin Fields
    BY <1>1, <1>10, PlainStep
  <2>3. read[i].what = "item" BY <1>4, <2>1
  <2>4. Collects(open[n]) BY DEF FeedInv
  <2>5. /\ Spells(item.title, read, Written(i, "title"))
        /\ Spells(item.link, read, Written(i, "link"))
        /\ item.active = IF read[Last(open)].what \in Fields THEN read[Last(open)].what
                         ELSE NoField
    BY <1>10, <2>2, <2>3, <2>4 DEF Collects
  <2>6. ASSUME NEW field
        PROVE  /\ Written(i, field)' = Written(i, field)
               /\ \A j \in Written(i, field) : read'[j] = read[j]
    BY <1>1, <1>4, <2>1, WrittenStep
  <2>7. item'.title = item.title /\ item'.link = item.link
    BY <1>2, <2>2, ItemIs DEF ItemStarted, FeedInv, Tags
  <2>8. item'.active = IF name \in Fields THEN name ELSE NoField
    <3>1. CASE name \in Fields
      BY <1>2, <2>2, <3>1, ItemIs DEF ItemStarted, FeedInv, Fields
    <3>2. CASE name \notin Fields
      <4>1. read[Inside].what \notin Fields BY <2>2, <2>3 DEF Fields
      <4>2. item.active = NoField BY <2>1, <2>5, <4>1
      <4> QED BY <1>2, <2>2, <3>2, <4>2, ItemIs DEF ItemStarted, FeedInv, Tags
    <3> QED BY <3>1, <3>2
  <2> QED BY <1>8, <2>5, <2>6, <2>7, <2>8, SpellsKept
<1>11. \A n \in 1..Len(open') : (n \in 1..Len(open) /\ open'[n] = open[n]) \/ open'[n] = k
  BY <1>5, <1>6
<1> QED BY <1>9, <1>10, <1>11

\* An end tag: the element around it is no title and no link.
LEMMA EndCollects ==
    ASSUME FeedInv, NEW name, ProcessEndTag(name), open # <<>>
    PROVE  \A n \in 1..Len(open') : \A i : i = open'[n] => Collects(i)'
<1> DEFINE e == Event("end", name)
<1>1. DocumentGood /\ Reported(e) /\ e.kind = "end"
  BY DEF FeedInv, ProcessEndTag, Event
<1>2. item' = [item EXCEPT !.active = NoField] BY DEF ProcessEndTag
<1> HIDE DEF e
<1>3. item'.title = item.title /\ item'.link = item.link /\ item'.active = NoField
  BY <1>2, ItemIs DEF FeedInv
<1>4. /\ Len(read) \in Nat
      /\ \A j \in 1..Len(read) : read'[j] = read[j] /\ parent'[j] = parent[j]
  BY <1>1, ReportedFacts
<1>5. /\ Len(open') = Len(open) - 1 /\ IsSeq(open')
      /\ \A n \in 1..Len(open') : open'[n] = open[n]
  BY <1>1, OpenStep DEF OpenGood
<1>6. Len(open) \in Nat BY <1>1, SeqFacts DEF DocumentGood, OpenGood
<1> SUFFICES ASSUME NEW n \in 1..Len(open'), NEW i, i = open'[n] PROVE Collects(i)'
  OBVIOUS
<1> SUFFICES ASSUME read'[i].what = "item", Plain(i)'
             PROVE  /\ Spells(item'.title, read', Written(i, "title")')
                    /\ Spells(item'.link, read', Written(i, "link")')
                    /\ item'.active = IF read'[Last(open')].what \in Fields
                                      THEN read'[Last(open')].what ELSE NoField
  BY DEF Collects
<1>7. n \in 1..Len(open) /\ i = open[n] BY <1>5, <1>6
<1>8. i \in 1..Len(read) BY <1>1, <1>7, InsideFacts
<1>9. Plain(i) BY <1>1, <1>7, PlainStep
<1>10. read[i].what = "item" BY <1>4, <1>8
<1>11. Spells(item.title, read, Written(i, "title")) /\ Spells(item.link, read, Written(i, "link"))
  <2>1. Collects(open[n]) BY <1>7 DEF FeedInv
  <2> QED BY <1>7, <1>9, <1>10, <2>1 DEF Collects
<1>12. ASSUME NEW field
       PROVE  /\ Written(i, field)' = Written(i, field)
              /\ \A j \in Written(i, field) : read'[j] = read[j]
  BY <1>1, <1>4, <1>8, WrittenStep
<1>13. read'[Last(open')].what \notin Fields
  <2> DEFINE N == Len(open)
             c == open[N]
             p == open[N - 1]
  <2>1. N \in 1..N /\ N - 1 \in 1..N /\ Len(open') = N - 1 /\ n <= N - 1
    BY <1>5, <1>6
  <2>2. Last(open') = p /\ p \in 1..Len(read)
    <3>1. open'[N - 1] = open[N - 1] BY <1>5, <2>1
    <3>2. Last(open') = open'[N - 1] BY <2>1 DEF Last
    <3>3. open[N - 1] \in 1..Len(read) BY <1>1, <2>1, InsideFacts
    <3> QED BY <3>1, <3>2, <3>3
  <2>3. c \in 1..Len(read) BY <1>1, <2>1, InsideFacts
  <2>4. i < c /\ read[c].kind = "start" /\ parent[c] = p
    BY <1>1, <1>6, <1>7, <2>1 DEF DocumentGood, OpenGood, StartsAt
  <2>5. read'[p] = read[p] BY <1>4, <2>2
  <2> HIDE DEF N, c, p
  <2>6. c \in (i + 1)..Len(read) BY <1>4, <1>8, <2>3, <2>4
  <2>7. p # i => read[p].what \notin Fields BY <1>9, <2>4, <2>6 DEF Plain
  <2> QED BY <1>10, <2>2, <2>5, <2>7 DEF Fields
<1> QED BY <1>3, <1>11, <1>12, <1>13, SpellsKept

\* Text is appended to the title or the link it lies in.
LEMMA TextCollects ==
    ASSUME FeedInv, NEW text, ProcessTextData(text)
    PROVE  \A n \in 1..Len(open') : \A i : i = open'[n] => Collects(i)'
<1> DEFINE e == Event("text", text)
           k == Len(read) + 1
<1>1. DocumentGood /\ Reported(e) /\ e.kind = "text" /\ e.what = text
  BY DEF FeedInv, ProcessTextData, Event
<1>2. item' = Collected(text) BY DEF ProcessTextData
<1> HIDE DEF e
<1>3. open' = open BY <1>1, OpenStep
<1>4. /\ Len(read) \in Nat /\ read'[k] = e
      /\ \A j \in 1..Len(read) : read'[j] = read[j] /\ parent'[j] = parent[j]
  BY <1>1, ReportedFacts
<1> SUFFICES ASSUME NEW n \in 1..Len(open), NEW i, i = open[n] PROVE Collects(i)'
  BY <1>3
<1> SUFFICES ASSUME read'[i].what = "item", Plain(i)'
             PROVE  /\ Spells(item'.title, read', Written(i, "title")')
                    /\ Spells(item'.link, read', Written(i, "link")')
                    /\ item'.active = IF read'[Last(open')].what \in Fields
                                      THEN read'[Last(open')].what ELSE NoField
  BY DEF Collects
<1>5. i \in 1..Len(read) /\ i <= Inside /\ Inside \in 0..Len(read) /\ open # <<>>
      /\ Inside = Last(open) /\ Inside = open[Len(open)] /\ Len(open) \in 1..Len(open)
  <2>1. Len(open) \in Nat BY <1>1, SeqFacts DEF DocumentGood, OpenGood
  <2> QED BY <1>1, <2>1, InsideFacts
<1>6. Plain(i) BY <1>1, PlainStep
<1>7. read[i].what = "item" BY <1>4, <1>5
<1>8. /\ Spells(item.title, read, Written(i, "title"))
      /\ Spells(item.link, read, Written(i, "link"))
      /\ item.active = IF read[Inside].what \in Fields THEN read[Inside].what ELSE NoField
  <2>1. Collects(open[n]) BY DEF FeedInv
  <2> QED BY <1>5, <1>6, <1>7, <2>1 DEF Collects
<1>9. Inside \in 1..Len(read) /\ read'[Inside] = read[Inside] BY <1>4, <1>5
<1>10. read[Inside].what \in Fields => parent[Inside] = i
  <2> SUFFICES ASSUME read[Inside].what \in Fields PROVE parent[Inside] = i OBVIOUS
  <2>1. Inside # i BY <1>7 DEF Fields
  <2>2. Inside \in (i + 1)..Len(read) BY <1>4, <1>5, <2>1
  <2>3. read[Inside].kind = "start"
    BY <1>1, <1>5 DEF DocumentGood, OpenGood, StartsAt
  <2> QED BY <1>6, <2>2, <2>3 DEF Plain
<1>11. ASSUME NEW field \in Fields
       PROVE  /\ Written(i, field) \subseteq 1..Len(read)
              /\ \A j \in Written(i, field) : read'[j] = read[j]
              /\ Written(i, field)' = IF read[Inside].what = field
                                      THEN Written(i, field) \cup {k} ELSE Written(i, field)
  <2>1. Inside > 0 BY <1>9
  <2>2. Written(i, field) \subseteq 1..Len(read) /\
        Written(i, field)' =
          IF /\ e.kind = "text" /\ Inside > 0
             /\ read[Inside].what = field /\ parent[Inside] = i
          THEN Written(i, field) \cup {k} ELSE Written(i, field)
    BY <1>1, <1>5, WrittenStep
  <2> QED BY <1>1, <1>4, <1>10, <2>1, <2>2
<1>12. "title" \in Fields /\ "link" \in Fields /\ "title" # "link" /\ NoField \notin Fields
       /\ \A f \in Fields : f = "title" \/ f = "link"
  BY DEF Fields, NoField
<1>13. read'[k].what = text BY <1>1, <1>4
<1>14. IsSeq(item.title) /\ IsSeq(item.link) BY DEF FeedInv, ItemGood
<1>15. item'.active = item.active
       /\ item'.title = (IF read[Inside].what = "title" THEN Append(item.title, text) ELSE item.title)
       /\ item'.link = (IF read[Inside].what = "link" THEN Append(item.link, text) ELSE item.link)
  <2>1. ItemGood BY DEF FeedInv
  <2>2. CASE read[Inside].what = "title"
    <3>1. item.active = "title" BY <1>8, <1>12, <2>2
    <3>2. item' = [item EXCEPT !["title"] = Append(item["title"], text)]
      BY <1>2, <1>12, <3>1 DEF Collected
    <3>3. item' = [title |-> Append(item["title"], text), link |-> item.link, active |-> item.active]
      BY <2>1, <3>2, ItemIs
    <3> QED BY <1>12, <2>2, <3>3
  <2>3. CASE read[Inside].what = "link"
    <3>1. item.active = "link" BY <1>8, <1>12, <2>3
    <3>2. item' = [item EXCEPT !["link"] = Append(item["link"], text)]
      BY <1>2, <1>12, <3>1 DEF Collected
    <3>3. item' = [title |-> item.title, link |-> Append(item["link"], text), active |-> item.active]
      BY <2>1, <3>2, ItemIs
    <3> QED BY <1>12, <2>3, <3>3
  <2>4. CASE read[Inside].what \notin Fields
    <3>1. item' = item BY <1>2, <1>8, <2>4 DEF Collected
    <3> QED BY <1>12, <2>4, <3>1
  <2> QED BY <1>12, <2>2, <2>3, <2>4
<1>16. item'.active = IF read'[Last(open')].what \in Fields THEN read'[Last(open')].what
                      ELSE NoField
  BY <1>3, <1>5, <1>8, <1>9, <1>15
<1>17. ASSUME NEW field \in Fields, NEW t, IsSeq(t), Spells(t, read, Written(i, field))
       PROVE  Spells(Append(t, read'[k].what), read', Written(i, field) \cup {k})
  <2> DEFINE W == Written(i, field)
             N == Len(read)
  <2>1. N \in Nat /\ W \subseteq 1..N BY <1>4, <1>11
  <2>2. \A j \in W : read'[j] = read[j] BY <1>11
  <2>3. Spells(t, read, W) BY <1>17
  <2> HIDE DEF W, N
  <2>4. Spells(Append(t, read'[N + 1].what), read', W \cup {N + 1})
    BY <1>17, <2>1, <2>2, <2>3, SpellsMore
  <2> QED BY <2>4 DEF W, N
<1>18. Spells(item'.title, read', Written(i, "title")')
  <2>1. CASE read[Inside].what = "title"
    <3>1. Spells(Append(item.title, read'[k].what), read', Written(i, "title") \cup {k})
      BY <1>8, <1>12, <1>14, <1>17
    <3> QED BY <1>11, <1>12, <1>13, <1>15, <2>1, <3>1
  <2>2. CASE read[Inside].what # "title"
    BY <1>8, <1>11, <1>12, <1>15, <2>2, SpellsKept
  <2> QED BY <2>1, <2>2
<1>19. Spells(item'.link, read', Written(i, "link")')
  <2>1. CASE read[Inside].what = "link"
    <3>1. Spells(Append(item.link, read'[k].what), read', Written(i, "link") \cup {k})
      BY <1>8, <1>12, <1>14, <1>17
    <3> QED BY <1>11, <1>12, <1>13, <1>15, <2>1, <3>1
  <2>2. CASE read[Inside].what # "link"
    BY <1>8, <1>11, <1>12, <1>15, <2>2, SpellsKept
  <2> QED BY <2>1, <2>2
<1> QED BY <1>16, <1>18, <1>19

LEMMA FeedInvInit == FeedInit => FeedInv
<1> SUFFICES ASSUME FeedInit PROVE FeedInv OBVIOUS
<1>1. read = <<>> /\ open = <<>> /\ parent = <<>> /\ handed = <<>> /\ item = NewItem(keeps)
  BY DEF FeedInit
<1>2. \A x : IsSeq(<<x>>)
  <2> TAKE x
  <2>1. <<x>> \in Seq({x}) OBVIOUS
  <2> QED BY <2>1 DEF IsSeq
<1>3. IsSeq(<<>>) BY EmptySeq DEF IsSeq
<1>4. Len(<<>>) = 0 BY EmptySeq
<1>5. DocumentGood BY <1>1, <1>3, <1>4 DEF DocumentGood, OpenGood
<1>6. ItemGood BY <1>1, <1>2, <1>3 DEF ItemGood, NewItem, ClearItem
<1> QED BY <1>1, <1>3, <1>4, <1>5, <1>6 DEF FeedInv, ItemsAsWritten

LEMMA FeedStep == FeedInv /\ [FeedNext]_feedVars => FeedInv'
<1> SUFFICES ASSUME FeedInv, [FeedNext]_feedVars PROVE FeedInv' OBVIOUS
<1> USE DEF FeedInv
<1>1. ASSUME NEW name \in Tags, ProcessStartTag(name) PROVE FeedInv'
  <2>1. Reported(Event("start", name)) /\ handed' = handed /\ item' = ItemStarted(name)
    BY <1>1 DEF ProcessStartTag
  <2>2. Event("start", name).kind = "start" BY DEF Event
  <2>3. DocumentGood' BY <2>1, <2>2, DocumentStep
  <2>4. ItemGood'
    <3>1. CASE name = "item"
      <4>1. item' = ClearItem BY <2>1, <3>1 DEF ItemStarted, Fields
      <4>2. IsSeq(<<>>) BY EmptySeq DEF IsSeq
      <4> QED BY <4>1, <4>2 DEF ItemGood, ClearItem
    <3>2. CASE name # "item"
      <4>1. PICK x \in Fields \cup {NoField} :
               item' = [title |-> item.title, link |-> item.link, active |-> x]
        <5>1. item' = item \/ \E x \in Fields \cup {NoField} : item' = [item EXCEPT !.active = x]
          BY <2>1, <3>2 DEF ItemStarted, Fields
        <5> QED BY <5>1, ItemIs DEF ItemGood
      <4> QED BY <4>1 DEF ItemGood
    <3> QED BY <3>1, <3>2
  <2>5. \A n \in 1..Len(open') : Collects(open[n])'
    BY <1>1, StartCollects
  <2>6. Last(read').kind = "start" BY <2>1, <2>2, ReportedFacts
  <2>7. ItemsAsWritten' BY <2>6 DEF ItemsAsWritten, Event
  <2> QED BY <2>1, <2>3, <2>4, <2>5, <2>7
<1>2. ASSUME NEW text, ProcessTextData(text) PROVE FeedInv'
  <2>1. Reported(Event("text", text)) /\ handed' = handed /\ item' = Collected(text)
    BY <1>2 DEF ProcessTextData
  <2>2. Event("text", text).kind = "text" BY DEF Event
  <2>3. DocumentGood' BY <2>1, <2>2, DocumentStep
  <2>4. ItemGood'
    <3>1. CASE item.active = NoField BY <2>1, <3>1 DEF Collected, ItemGood
    <3>2. CASE item.active = "title"
      <4>1. item' = [item EXCEPT !["title"] = Append(item["title"], text)]
        BY <2>1, <3>2 DEF Collected, NoField
      <4>2. item' = [title |-> Append(item["title"], text), link |-> item.link, active |-> item.active]
        BY <4>1, ItemIs
      <4>3. IsSeq(Append(item["title"], text)) BY AppendFacts DEF ItemGood
      <4> QED BY <4>2, <4>3 DEF ItemGood
    <3>3. CASE item.active = "link"
      <4>1. item' = [item EXCEPT !["link"] = Append(item["link"], text)]
        BY <2>1, <3>3 DEF Collected, NoField
      <4>2. item' = [title |-> item.title, link |-> Append(item["link"], text), active |-> item.active]
        BY <4>1, ItemIs
      <4>3. IsSeq(Append(item["link"], text)) BY AppendFacts DEF ItemGood
      <4> QED BY <4>2, <4>3 DEF ItemGood
    <3> QED BY <3>1, <3>2, <3>3 DEF ItemGood, Fields
  <2>5. \A n \in 1..Len(open') : Collects(open[n])'
    BY <1>2, TextCollects
  <2>6. Last(read').kind = "text" BY <2>1, <2>2, ReportedFacts
  <2>7. ItemsAsWritten' BY <2>6 DEF ItemsAsWritten, Event
  <2> QED BY <2>1, <2>3, <2>4, <2>5, <2>7
<1>3. ASSUME NEW name, name = read[Last(open)].what, open # <<>>, ProcessEndTag(name)
      PROVE  FeedInv'
  <2>1. /\ Reported(Event("end", name)) /\ item' = [item EXCEPT !.active = NoField]
        /\ handed' = IF name = "item" THEN Append(handed, <<item.title, item.link>>) ELSE handed
    BY <1>3 DEF ProcessEndTag
  <2>2. Event("end", name).kind = "end" /\ Event("end", name).what = name BY DEF Event
  <2>3. DocumentGood' BY <1>3, <2>1, <2>2, DocumentStep
  <2>4. ItemGood'
    <3>1. item' = [title |-> item.title, link |-> item.link, active |-> NoField]
      BY <2>1, ItemIs
    <3> QED BY <3>1 DEF ItemGood
  <2>5. \A n \in 1..Len(open') : Collects(open[n])'
    BY <1>3, EndCollects
  <2>6. IsSeq(handed') BY <2>1, AppendFacts
  <2>7. ItemsAsWritten'
    <3> SUFFICES ASSUME NEW i, i = Last(parent)', Last(read') = Event("end", "item"), Plain(i)'
                 PROVE  /\ Spells(handed'[Len(handed')][1], read', Written(i, "title")')
                        /\ Spells(handed'[Len(handed')][2], read', Written(i, "link")')
      BY DEF ItemsAsWritten
    <3>1. Last(read') = Event("end", name) /\ Last(parent') = Inside
      BY <2>1, ReportedFacts
    <3>2. name = "item" BY <2>2, <3>1 DEF Event
    <3> DEFINE N == Len(open)
    <3>3. N \in 1..N /\ i = open[N] /\ Inside = i /\ Last(open) = i /\ i \in 1..Len(read)
      BY <1>3, <3>1, InsideFacts
    <3>4. Plain(i) BY <2>1, <3>3, PlainStep
    <3>5. Collects(open[N]) BY <3>3
    <3>6. /\ Spells(item.title, read, Written(i, "title"))
          /\ Spells(item.link, read, Written(i, "link"))
      BY <1>3, <3>2, <3>3, <3>4, <3>5 DEF Collects
    <3>7. ASSUME NEW field
          PROVE  /\ Written(i, field)' = Written(i, field)
                 /\ \A j \in Written(i, field) : read'[j] = read[j]
      BY <2>1, <2>2, <3>3, WrittenStep, ReportedFacts
    <3>8. handed'[Len(handed')] = <<item.title, item.link>> BY <2>1, <3>2, AppendFacts
    <3> QED BY <3>6, <3>7, <3>8, SpellsKept
  <2> QED BY <2>3, <2>4, <2>5, <2>6, <2>7
<1>4. CASE UNCHANGED feedVars
  <2>1. /\ item' = item /\ handed' = handed /\ read' = read /\ open' = open /\ parent' = parent
    BY <1>4 DEF feedVars
  <2>2. DocumentGood' BY <2>1 DEF DocumentGood, OpenGood
  <2>3. ItemGood' BY <2>1 DEF ItemGood
  <2>4. \A i : Plain(i)' <=> Plain(i) BY <2>1 DEF Plain
  <2>5. \A i, f : Written(i, f)' = Written(i, f) BY <2>1 DEF Written
  <2>6. ASSUME NEW n \in 1..Len(open') PROVE Collects(open[n])'
    BY <2>1, <2>4, <2>5 DEF Collects
  <2>7. ItemsAsWritten' BY <2>1, <2>4, <2>5 DEF ItemsAsWritten
  <2> QED BY <2>1, <2>2, <2>3, <2>6, <2>7
<1> QED BY <1>1, <1>2, <1>3, <1>4 DEF FeedNext

\* Whatever a feed of any length contains, a plain item has the title and the
\* link written in it when it ends.
THEOREM ItemsReachParseArticle == FeedSpec => []ItemsAsWritten
<1>1. FeedInv => ItemsAsWritten BY DEF FeedInv
<1> QED BY <1>1, FeedInvInit, FeedStep, PTL DEF FeedSpec
=============================================================================
