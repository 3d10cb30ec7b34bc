----------------------------- MODULE FeedParser -----------------------------
(***************************************************************************)
(* The three callbacks through which expat reports a feed, as they are in  *)
(* both aggregators: ProcessStartTag, ProcessEndTag, ProcessTextData.  The *)
(* buffers of the item are sequences of the pieces of text copied to them; *)
(* a description, which assignment 4 copies and nobody reads, is one of    *)
(* the other elements.  What is reported lies inside one root element and  *)
(* is well nested, or else expat stops.                                    *)
(***************************************************************************)
EXTENDS Integers, Sequences, SequencesExt, FiniteSetsExt

CONSTANTS Pieces,     \* pieces of character data
          Garbage,    \* what is in a buffer that nobody has cleared
          MaxEvents   \* bound: events in a feed

VARIABLES keeps,   \* does an unknown start tag leave the active field alone?
          item,    \* title, link, and which of them text is appended to
          handed,  \* the <<title, link>> of each item that was closed
          read,    \* the events reported so far
          open,    \* where in `read' the open elements start, the innermost last
          parent   \* where the element starts that each event lies in, 0 for
                   \* the root; for an end tag, where its own element starts

feedVars == <<keeps, item, handed, read, open, parent>>

Fields  == {"title", "link"}
Tags    == Fields \cup {"item", "other"}
NoField == "none"

Event(kind, what) == [kind |-> kind, what |-> what]

\* expat reports an event.
Inside == IF open = <<>> THEN 0 ELSE Last(open)

Reported(e) ==
    /\ read' = Append(read, e)
    /\ parent' = Append(parent, Inside)
    /\ open' = CASE e.kind = "start" -> Append(open, Len(read) + 1)
                 [] e.kind = "end"   -> Front(open)
                 [] OTHER            -> open

ClearItem == [title |-> <<>>, link |-> <<>>, active |-> NoField]

\* PullAllNewsItems: assignment 4 leaves the buffers as they are, assignment
\* 6 has a struct initialiser clear them.
NewItem(assn6) ==
    IF assn6 THEN ClearItem
    ELSE [title |-> <<Garbage>>, link |-> <<Garbage>>, active |-> NoField]

FeedInit == /\ keeps \in BOOLEAN
            /\ item = NewItem(keeps)
            /\ handed = <<>>
            /\ read = <<>> /\ open = <<>> /\ parent = <<>>

\* A new parser and a new item, on the same code.
PullAllNewsItems ==
    /\ item' = NewItem(keeps)
    /\ handed' = <<>>
    /\ read' = <<>> /\ open' = <<>> /\ parent' = <<>>
    /\ UNCHANGED keeps

\* Mutant: an item inherits the text of the one before it.
ItemUncleared(name) ==
    CASE name = "item"     -> [item EXCEPT !.active = NoField]
      [] name \in Fields   -> [item EXCEPT !.active = name]
      [] name = "other" /\ keeps -> item
      [] OTHER             -> [item EXCEPT !.active = NoField]

ItemStarted(name) ==
    CASE name = "item"     -> ClearItem
      [] name \in Fields   -> [item EXCEPT !.active = name]
      [] name = "other" /\ keeps -> item
      [] OTHER             -> [item EXCEPT !.active = NoField]

ProcessStartTag(name) ==
    /\ Reported(Event("start", name))
    /\ item' = ItemStarted(name)
    /\ UNCHANGED <<keeps, handed>>

\* An item that ends is handed to ParseArticle.
ProcessEndTag(name) ==
    /\ Reported(Event("end", name))
    /\ item' = [item EXCEPT !.active = NoField]
    /\ handed' = IF name = "item" THEN Append(handed, <<item.title, item.link>>)
                 ELSE handed
    /\ UNCHANGED keeps

\* strncat; it never meets the end of the buffer here.
Collected(text) == IF item.active = NoField THEN item
                   ELSE [item EXCEPT ![item.active] = Append(@, text)]

ProcessTextData(text) ==
    /\ Reported(Event("text", text))
    /\ item' = Collected(text)
    /\ UNCHANGED <<keeps, handed>>

Callback(e) == \/ e.kind = "start" /\ ProcessStartTag(e.what)
               \/ e.kind = "end"   /\ ProcessEndTag(e.what)
               \/ e.kind = "text"  /\ ProcessTextData(e.what)

\* Any feed of at most MaxEvents events.
FeedNext ==
    LET room == MaxEvents - Len(read) - Len(open)
    IN  \/ room >= 2 /\ \E name \in Tags : ProcessStartTag(name)
        \/ room >= 1 /\ \E text \in Pieces : ProcessTextData(text)
        \/ open # <<>> /\ ProcessEndTag(read[Last(open)].what)

FeedSpec == FeedInit /\ [][FeedNext]_feedVars

-----------------------------------------------------------------------------
(* The document the events stand for *)

\* Where the text is in the children called `field' of the element at i.
Written(i, field) ==
    {k \in DOMAIN read : /\ read[k].kind = "text" /\ parent[k] > 0
                         /\ read[parent[k]].what = field
                         /\ parent[parent[k]] = i}

\* The pieces `text' are what `events' has at `places', all of it, in order.
Spells(text, events, places) ==
    \E place \in [DOMAIN text -> places] :
        /\ \A m, n \in DOMAIN text : m < n => place[m] < place[n]
        /\ \A k \in places : \E n \in DOMAIN text : place[n] = k
        /\ \A n \in DOMAIN text : text[n] = events[place[n]].what

\* Titles and links are children of the item at i and have no elements
\* inside, and there is no item in the item.
Plain(i) ==
    \A k \in (i + 1)..Len(read) : read[k].kind = "start" =>
        /\ read[k].what # "item"
        /\ read[k].what \in Fields => parent[k] = i
        /\ parent[k] # i => read[parent[k]].what \notin Fields

\* Whatever else a feed contains, and however the text is cut into pieces,
\* each plain item reaches ParseArticle with exactly the title and the link
\* written in it (ProcessStartTag, ProcessEndTag, ProcessTextData).
ItemsAsWritten ==
    read # <<>> /\ Last(read) = Event("end", "item") =>
        LET i == Last(parent)
            n == Len(handed)
        IN  Plain(i) => /\ Spells(handed[n][1], read, Written(i, "title"))
                        /\ Spells(handed[n][2], read, Written(i, "link"))
=============================================================================
