------------------------------- MODULE NewsParse -------------------------------
(***************************************************************************)
(* One load of a feed by a NewsParser object (Service/NewsParse.swift):    *)
(* the request, the SAX handlers and the completion handler.               *)
(*                                                                         *)
(* The XML parser is external: it reports a document element by element,   *)
(* and the text of an element in any number of pieces, cut anywhere.  Text *)
(* is a sequence over Words and Blank; pieces come from Pieces.  The       *)
(* document is an RSS channel: leaves with text, items with leaves, white  *)
(* space between elements.                                                 *)
(***************************************************************************)
EXTENDS Naturals, Sequences, SequencesExt, FiniteSetsExt

CONSTANTS
    Words, Blank,   \* the characters, as far as trimming tells them apart
    Pieces,         \* the pieces of text one foundCharacters call may bring
    MaxItems,       \* bound: items in the document
    MaxLeaves,      \* bound: leaf elements in the document
    MaxPieces       \* bound: pieces of text in the document

Text   == Seq(Words \cup {Blank})
Fields == {"title", "description", "pubDate"}
Leaves == Fields \cup {"link"}          \* any other element stands for "link"
NoText == [f \in Fields |-> <<>>]

ASSUME ParseAssumption ==
    /\ Blank \notin Words
    /\ Pieces \subseteq Text \ {<<>>}
    /\ MaxItems \in Nat /\ MaxLeaves \in Nat /\ MaxPieces \in Nat

VARIABLES
    phase,          \* "idle", "requested", "parsing", "closed" (the last
                    \* element is), "ended", or "silent" (nobody is told)
    rssItems,       \* rssItems
    currentElement, \* currentElement
    current,        \* currentTitle, currentDescription, currentPubDate
    delivered,      \* <<>>, or what the completion handler was called with
    path,           \* external: the elements that are open
    inItem,         \* external: the text of the open item, by field
    inItems,        \* external: the same of every item that is closed
    cuts,           \* external: per field, pieces in the open item
    cutsOf,         \* external: the same of every item that is closed
    leafCount, pieceCount

parserVars == <<rssItems, currentElement, current, delivered>>
docVars    == <<path, inItem, inItems, cuts, cutsOf, leafCount, pieceCount>>
vars       == <<phase, parserVars, docVars>>

(* trimmingCharacters(in: .whitespacesAndNewlines)                         *)
Solid(s) == {i \in DOMAIN s : s[i] # Blank}
Trim(s) == IF Solid(s) = {} THEN <<>>
           ELSE SubSeq(s, Min(Solid(s)), Max(Solid(s)))

(* The solid characters in their order.                                    *)
WordsOf(s) ==
    LET words[i \in 0 .. Len(s)] ==
            IF i = 0 THEN <<>>
            ELSE IF s[i] = Blank THEN words[i - 1]
            ELSE Append(words[i - 1], s[i])
    IN  words[Len(s)]

-----------------------------------------------------------------------------
Init ==
    /\ phase = "idle"
    /\ rssItems = <<>> /\ currentElement = "" /\ current = NoText
    /\ delivered = <<>>
    /\ path = <<>> /\ inItem = NoText /\ inItems = <<>>
    /\ cuts = [f \in Fields |-> 0] /\ cutsOf = <<>>
    /\ leafCount = 0 /\ pieceCount = 0

(* parseFeed: URL(string:) may refuse the text; then nothing is requested. *)
ParseFeed ==
    /\ phase = "idle"
    /\ phase' \in {"requested", "silent"}
    /\ UNCHANGED <<parserVars, docVars>>

(* The closure of the data task: with data, or without (it returns).       *)
DataTaskEnds ==
    /\ phase = "requested"
    /\ phase' \in {"parsing", "silent"}
    /\ UNCHANGED <<parserVars, docVars>>

-----------------------------------------------------------------------------
(* The handlers of XMLParserDelegate                                       *)

StartWithoutReset(e) ==         \* a bug: the fields of the last item stay
    /\ currentElement' = e
    /\ UNCHANGED <<current, rssItems, delivered>>
DidStartElement(e) ==
    /\ currentElement' = e
    /\ current' = IF e = "item" THEN NoText ELSE current
    /\ UNCHANGED <<rssItems, delivered>>

(* The fields trim themselves whenever they are set.                       *)
FoundSolid(string) ==           \* a bug: blanks are taken out everywhere
    /\ current' = IF currentElement \in Fields
                  THEN [current EXCEPT ![currentElement] = @ \o WordsOf(string)]
                  ELSE current
    /\ UNCHANGED <<rssItems, currentElement, delivered>>
FoundCharacters(string) ==
    /\ current' = IF currentElement \in Fields
                  THEN [current EXCEPT ![currentElement] = Trim(@ \o string)]
                  ELSE current
    /\ UNCHANGED <<rssItems, currentElement, delivered>>

EndAndTell(e) ==                \* a bug: the handler is called for every item
    /\ rssItems' = IF e = "item" THEN Append(rssItems, current) ELSE rssItems
    /\ delivered' = IF e = "item" THEN << rssItems' >> ELSE delivered
    /\ UNCHANGED <<currentElement, current>>
DidEndElement(e) ==
    /\ rssItems' = IF e = "item" THEN Append(rssItems, current) ELSE rssItems
    /\ UNCHANGED <<currentElement, current, delivered>>

ParserDidEndDocument ==
    /\ delivered' = << rssItems >>
    /\ UNCHANGED <<rssItems, currentElement, current>>

-----------------------------------------------------------------------------
(* What the parser may report next about a document, and the handler that  *)
(* hears it.                                                               *)

Open(e) ==
    /\ phase = "parsing"
    /\ \/ path = <<>> /\ e = "channel"
       \/ path = <<"channel">> /\ e = "item" /\ Len(inItems) < MaxItems
       \/ path \in {<<"channel">>, <<"channel", "item">>} /\ e \in Leaves
          /\ leafCount < MaxLeaves
    /\ path' = Append(path, e)
    /\ inItem' = IF e = "item" THEN NoText ELSE inItem
    /\ cuts' = IF e = "item" THEN [f \in Fields |-> 0] ELSE cuts
    /\ leafCount' = IF e \in Leaves THEN leafCount + 1 ELSE leafCount
    /\ DidStartElement(e)
    /\ UNCHANGED <<phase, inItems, cutsOf, pieceCount>>

Characters(string) ==
    /\ phase = "parsing" /\ path # <<>>
    /\ pieceCount < MaxPieces
    /\ Last(path) \notin Leaves => Solid(string) = {}
    /\ pieceCount' = pieceCount + 1
    /\ IF Len(path) = 3 /\ Last(path) \in Fields
       THEN /\ inItem' = [inItem EXCEPT ![Last(path)] = @ \o string]
            /\ cuts' = [cuts EXCEPT ![Last(path)] = @ + 1]
       ELSE UNCHANGED <<inItem, cuts>>
    /\ FoundCharacters(string)
    /\ UNCHANGED <<phase, path, inItems, cutsOf, leafCount>>

Close ==
    /\ phase = "parsing" /\ Len(path) > 0
    /\ Len(path) > 1 \/ inItems # <<>> \/ leafCount > 0
    /\ path' = Front(path)
    /\ inItems' = IF Last(path) = "item" THEN Append(inItems, inItem) ELSE inItems
    /\ cutsOf'  = IF Last(path) = "item" THEN Append(cutsOf, cuts) ELSE cutsOf
    /\ DidEndElement(Last(path))
    /\ phase' = IF Len(path) = 1 THEN "closed" ELSE phase
    /\ UNCHANGED <<inItem, cuts, leafCount, pieceCount>>

EndDocument ==
    /\ phase = "closed"
    /\ phase' = "ended"
    /\ ParserDidEndDocument
    /\ UNCHANGED docVars

(* The document is not well-formed here: parse() returns false, and the    *)
(* delegate has no parseErrorOccurred.                                     *)
Malformed ==
    /\ phase \in {"parsing", "closed"}
    /\ phase' = "silent"
    /\ UNCHANGED <<parserVars, docVars>>

Parse ==
    \/ \E e \in Leaves \cup {"channel", "item"} : Open(e)
    \/ \E string \in Pieces : Characters(string)
    \/ Close
    \/ EndDocument

Next == ParseFeed \/ DataTaskEnds \/ Parse \/ Malformed

Spec == Init /\ [][Next]_vars

-----------------------------------------------------------------------------
(* However the text is cut into pieces, item by item and field by field    *)
(* the parser has the words of the document in their order: none is lost,  *)
(* none comes from the channel, from another item or from another element. *)
ItemsFollowDocument ==
    /\ Len(rssItems) = Len(inItems)
    /\ \A i \in DOMAIN rssItems : \A f \in Fields :
          WordsOf(rssItems[i][f]) = WordsOf(inItems[i][f])

(* Trimming after every piece can only take blanks away, and takes none    *)
(* from inside a text that came in one piece: such a field is exactly the  *)
(* trimmed text of the document.                                           *)
WholeTextIsExact ==
    \A i \in DOMAIN rssItems : \A f \in Fields :
        cutsOf[i][f] <= 1 => rssItems[i][f] = Trim(inItems[i][f])

(* The handler is called for a whole document only, with all its items,    *)
(* and is not called again.                                                *)
DeliversWholeDocument ==
    /\ delivered # <<>> => /\ phase = "ended" /\ path = <<>>
                           /\ Len(delivered[1]) = Len(inItems)
    /\ phase = "ended" => delivered # <<>>
=============================================================================
