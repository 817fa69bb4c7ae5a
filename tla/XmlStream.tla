----------------------------- MODULE XmlStream -----------------------------
(***************************************************************************)
(* The receiving side of the INDIGO client: the read loop collects chunks  *)
(* of bytes in _xml_buffer and takes complete elements from its front.     *)
(*                                                                         *)
(* Text is a sequence of symbols: "<", "/", ">", a blank "sp", a newline   *)
(* "nl", the bytes "e1" and "e2" of a character that UTF-8 encodes in two, *)
(* the replacement character "?", and words that stand for themselves.     *)
(* The server is external: it sends whole elements, with white space       *)
(* between them; the network cuts the stream where it likes.               *)
(***************************************************************************)
EXTENDS Naturals, Sequences, FiniteSets, FiniteSetsExt, SequencesExt

CONSTANTS
    Separators,   \* white space it may send before an element
    MaxElements   \* bound: elements sent over one connection

VARIABLES
    wire,     \* bytes that have not been read
    buffer,   \* _xml_buffer
    reader,   \* "reading", "processing" the buffer, or "down": no connection
    said,     \* history: the elements sent over this connection
    heard     \* history: the elements taken from this connection

xmlVars == <<wire, buffer, reader, said, heard>>

-----------------------------------------------------------------------------
(* Extraction of an element *)

\* data.decode("utf-8", errors="replace"): one half of a character is replaced.
Decode(data) ==
    [i \in DOMAIN data |->
        IF (data[i] = "e1" /\ i = Len(data)) \/ (data[i] = "e2" /\ i = 1)
        THEN "?" ELSE data[i]]

Blanks == {"sp", "nl"}

\* Where s has the symbol x.
Places(s, x) == {i \in DOMAIN s : s[i] = x}

\* s.find(pattern, from), as the set of all places.
Finds(s, pattern, from) ==
    {i \in from .. Len(s) - Len(pattern) + 1 :
        SubSeq(s, i, i + Len(pattern) - 1) = pattern}

\* Mutant of LStrip: white space between elements is not expected.
LStripNothing(s) == s

LStrip(s) ==
    LET text == {i \in DOMAIN s : s[i] \notin Blanks}
    IN  IF text = {} THEN <<>> ELSE SubSeq(s, Min(text), Len(s))

\* The end of the opening tag, and the name in it.
TagEnd(s) == Min(Places(s, ">"))
TagName(s) == SubSeq(s, 2, Min(Places(s, "sp") \cup Places(s, ">")) - 1)

SelfClosing(s) == TagEnd(s) > 1 /\ s[TagEnd(s) - 1] = "/"

\* Where the text begins with the closing tag of its root.
Closings(s) == Finds(s, <<"<", "/">> \o TagName(s) \o <<">">>, TagEnd(s))

\* Mutant of ElementEnd: the first "/>" ends the element, a child's too.
ElementEndAtChild(s) ==
    LET ends == {i \in Places(s, "/") : i < Len(s) /\ s[i + 1] = ">"}
    IN  IF s = <<>> \/ s[1] # "<" \/ Places(s, ">") = {} THEN 0
        ELSE IF ends # {} THEN Min(ends) + 1
        ELSE IF Closings(s) = {} THEN 0
        ELSE Min(Closings(s)) + Len(TagName(s)) + 2

\* Where the element at the front of the stripped text s ends; 0 if it is not
\* complete, or if s does not begin with an element.
ElementEnd(s) ==
    IF s = <<>> \/ s[1] # "<" \/ Places(s, ">") = {} THEN 0
    ELSE IF SelfClosing(s) THEN TagEnd(s)
    ELSE IF Closings(s) = {} THEN 0
    ELSE Min(Closings(s)) + Len(TagName(s)) + 2

\* In e, whose name ends before "name", the closing tag of the root is at i.
ClosesAt(e, i, name) ==
    /\ e[i] = "<" /\ e[i + 1] = "/" /\ e[i + name] = ">"
    /\ \A k \in 2 .. name - 1 : e[i + k] = e[k]

\* What the server sends as an element (external): its opening tag ends at "tag";
\* it closes itself there, or it ends with the first closing tag of its name.
IsElement(e) ==
    /\ e \in Seq(STRING)
    /\ \E tag, name \in DOMAIN e :
         /\ e[1] = "<"
         /\ e[tag] = ">" /\ \A i \in 1 .. tag - 1 : e[i] # ">"
         /\ e[name] \in {"sp", ">"} /\ \A i \in 1 .. name - 1 : e[i] \notin {"sp", ">"}
         /\ \A i \in 1 .. name - 1 : e[i] \notin {"e1", "e2", "?"}
         /\ \/ e[tag - 1] = "/" /\ tag = Len(e)
            \/ /\ e[tag - 1] # "/" /\ tag <= Len(e) - name
               /\ ClosesAt(e, Len(e) - name, name)
               /\ \A i \in tag .. Len(e) - name - 1 : ~ClosesAt(e, i, name)

\* The text inside an element, which is "" for a self-closing one.
TextOf(e) == IF SelfClosing(e) THEN <<>>
             ELSE SubSeq(e, TagEnd(e) + 1, Min(Closings(e)) - 1)

-----------------------------------------------------------------------------
InitXml ==
    /\ wire = <<>> /\ buffer = <<>> /\ reader = "reading"
    /\ said = <<>> /\ heard = <<>>

\* The server sends an element (external).
Say(e) ==
    /\ reader # "down" /\ Len(said) < MaxElements
    /\ \E s \in Separators : wire' = wire \o s \o e
    /\ said' = Append(said, e)
    /\ UNCHANGED <<buffer, reader, heard>>

\* read() returns a chunk.
ReadChunk ==
    /\ reader = "reading"
    /\ \E k \in 1 .. Len(wire) :
         /\ buffer' = buffer \o Decode(SubSeq(wire, 1, k))
         /\ wire' = SubSeq(wire, k + 1, Len(wire))
    /\ reader' = "processing"
    /\ UNCHANGED <<said, heard>>

\* _process_buffer() takes the next element.
NextElement ==
    LET s == LStrip(buffer)
        end == ElementEnd(s)
    IN  /\ reader = "processing" /\ end > 0
        /\ buffer' = SubSeq(s, end + 1, Len(s))
        /\ heard' = Append(heard, SubSeq(s, 1, end))
        /\ UNCHANGED <<wire, reader, said>>

\* _process_buffer() finds no complete element; the buffer is left as it is.
BufferDone ==
    /\ reader = "processing" /\ ElementEnd(LStrip(buffer)) = 0
    /\ reader' = "reading"
    /\ UNCHANGED <<wire, buffer, said, heard>>

\* The connection is lost: read() returns nothing more, or a callback raises.
Down ==
    /\ reader # "down"
    /\ reader' = "down"
    /\ wire' = <<>> /\ said' = <<>> /\ heard' = <<>>
    /\ UNCHANGED buffer

\* Mutant of Up: the rest of the old connection stays in the buffer.
UpKeepsBuffer ==
    /\ reader = "down"
    /\ reader' = "reading"
    /\ UNCHANGED <<wire, buffer, said, heard>>

\* A new connection is established.
Up ==
    /\ reader = "down"
    /\ reader' = "reading" /\ buffer' = <<>>
    /\ UNCHANGED <<wire, said, heard>>

-----------------------------------------------------------------------------
(* Properties *)

\* h is e, but for characters that a chunk has cut in two.
Agree(h, e) ==
    /\ Len(h) = Len(e)
    /\ \A i \in DOMAIN h : h[i] = e[i] \/ (h[i] = "?" /\ e[i] \in {"e1", "e2"})

\* Wherever the network cuts the stream, and whatever was left of an earlier
\* connection: the elements taken are those that were sent, in order, none
\* doubled, merged or split; only a character cut in two is not itself.
ElementsInOrder ==
    /\ Len(heard) <= Len(said)
    /\ \A i \in DOMAIN heard : Agree(heard[i], said[i])

\* An element is not kept waiting for the next one: when the read loop waits
\* for data, less than a whole element is left in the buffer.  In particular,
\* when all that was sent has been read, everything has been taken.
TakenPromptly ==
    reader = "reading" =>
        /\ wire = <<>> => Len(heard) = Len(said)
        /\ Len(heard) < Len(said) =>
             Len(LStrip(buffer)) < Len(said[Len(heard) + 1])
=============================================================================
