---------------------------- MODULE TextEncoding ----------------------------
(***************************************************************************)
(* Text in the eight-unit code of ARIB STD-B24: charset::Encoder, which    *)
(* designates, invokes and single-shifts graphic sets as the characters    *)
(* ask for it, encode_text_with_drcs, which breaks a caption into chunks   *)
(* around its glyphs, and a receiver that follows the codes.               *)
(*                                                                         *)
(* A behaviour is one text of unlimited length, a character at a time.     *)
(* What the encoder reads ahead only chooses between ways to send the same *)
(* character, so it is a free choice here (ReadsAhead, Lookups) and the    *)
(* text need not be known.  Left out: the rows and columns of characters,  *)
(* line ends and the marks between runs, which change no state, and        *)
(* characters that have no code, which are skipped.  External: the         *)
(* receiver, for whom the Kanji set and plane 1 of JIS X 0213 are one.     *)
(***************************************************************************)
EXTENDS Naturals, Sequences, SequencesExt

CONSTANTS
  Characters,  \* after toHalfwidth()
  SetsOf,      \* the charsets that a character is in
  Kana,        \* the letters of Hiragana and Katakana
  Overlaid,    \* characters that plane 1 has in rows 85-94 only
  Glyphs,      \* characters that are sent as DRCS
  MaxCodes,    \* kMaxCodes: 94
  Pages,       \* texts: [mode, characters, glyphs], what may occur in them
  None

\* lookupPriority
Priority ==
  <<"Alphanumeric", "Hiragana", "Katakana", "JISX0201Katakana", "AdditionalSymbols",
    "JISKanjiPlane1", "JISKanjiPlane2">>
Charsets == Range(Priority)
Planes   == {"JISKanjiPlane1", "JISKanjiPlane2"}

TextAssumption ==
  /\ Kana \subseteq Characters /\ Overlaid \subseteq Characters
  /\ SetsOf \in [Characters -> SUBSET Charsets]
  /\ MaxCodes \in Nat
  /\ Pages \subseteq [mode : {"Text", "Caption"}, characters : SUBSET Characters,
                      glyphs : SUBSET Glyphs]

VARIABLES
  page,      \* which text this is
  place,     \* "chunk", or outside of chunks: before the first, "start", or after a "glyph"
  enc,       \* Encoder::state
  allocated, \* DrcsCodeAllocator: glyphs in the order of their codes
  receiver,  \* its graphic sets, what is invoked, and the size of characters
  said,      \* the last character of the text, and the widths it may have
  seen       \* the last character that the receiver has shown

vars == <<page, place, enc, allocated, receiver, said, seen>>

Caption == page.mode = "Caption"
-----------------------------------------------------------------------------
(* Looking up a character.                                                 *)

\* isCaptionReachable
Reachable(c) ==
  IF Caption
  THEN SetsOf[c] \ ({"JISKanjiPlane2"} \cup IF c \in Overlaid THEN {"JISKanjiPlane1"} ELSE {})
  ELSE SetsOf[c]

\* A set in use is preferred, but in a text no plane of Kanji is.
Candidates(c, sets) ==
  SelectSeq(sets, LAMBDA s : s \in Reachable(c) /\ (Caption \/ s \notin Planes))

\* findChar
FindChar(c, gl, gr) ==
  IF Caption /\ "AdditionalSymbols" \in Reachable(c) THEN "AdditionalSymbols"
  ELSE Head(Candidates(c, <<gl, gr>>)
              \o SelectSeq(Priority, LAMBDA s : s \in Reachable(c)))

\* What encodeImpl may find: a set that the next character is in too
\* (findCharsetBy2Char) comes before the set that is found for c alone.
Lookups(e, c) ==
  LET gl == e.graphic[e.gl]
      gr == e.graphic[e.gr]
      found == FindChar(c, gl, gr)
  IN IF found \in {gl, gr, "AdditionalSymbols"} \/ c \in Kana THEN {found}
     ELSE Reachable(c)
-----------------------------------------------------------------------------
(* Codes, and the receiver.                                                *)

Designate(g, set) == [is |-> "designate", to |-> g, set |-> set]
LockGL(g)  == [is |-> "gl", to |-> g]
LockGR(g)  == [is |-> "gr", to |-> g]
Single(g)  == [is |-> "single", to |-> g]
Size(size) == [is |-> "size", size |-> size]

\* A character by its position in a set, in the left or the right half of the code.
Code(right, set, c) == [is |-> "character", right |-> right, set |-> set, char |-> c]

NotDesignated == 255

\* In the shape that a statement and a descriptor begin with.
Initial(mode) ==
  [graphic |-> [g \in 0..3 |->
     CASE g = 0 -> "JISKanjiPlane1" [] g = 1 -> "Alphanumeric" [] g = 2 -> "Hiragana"
       [] g = 3 -> IF mode = "Caption" THEN "Macro" ELSE "Katakana"],
   gl |-> 0, gr |-> 2]

ReceiverInit(mode) ==
  Initial(mode) @@ [single |-> None, size |-> "full", shows |-> None]

Invoked(r, right) ==
  r.graphic[IF right THEN r.gr ELSE IF r.single # None THEN r.single ELSE r.gl]

\* A position shows another character in another set.
Receive(r, code) ==
  CASE code.is = "designate" -> [r EXCEPT !.graphic[code.to] = code.set]
    [] code.is = "gl" -> [r EXCEPT !.gl = code.to]
    [] code.is = "gr" -> [r EXCEPT !.gr = code.to]
    [] code.is = "single" -> [r EXCEPT !.single = code.to]
    [] code.is = "size" -> [r EXCEPT !.size = code.size]
    [] code.is = "character" ->
         [r EXCEPT !.single = None,
            !.shows = [char |-> IF Invoked(r, code.right) = code.set THEN code.char
                                ELSE "another character",
                       width |-> r.size]]

Received(codes) == FoldLeft(Receive, receiver, codes)
-----------------------------------------------------------------------------
(* Encoder.  Its steps yield the state and the codes that are written.     *)

EncoderInit(mode) ==
  Initial(mode) @@ [isGR |-> FALSE, singleShift |-> 0, prevCharsetCode |-> "None",
                    characterSize |-> "full"]

Step(e, codes) == [enc |-> e, codes |-> codes]

\* The codes of one step after those of another.
After(step, codes) == [step EXCEPT !.codes = codes \o @]

SetCharacterSize(e, size) ==
  IF e.characterSize = size THEN Step(e, <<>>)
  ELSE Step([e EXCEPT !.characterSize = size], <<Size(size)>>)

SetGL(e, g) ==
  IF e.gl = g THEN Step([e EXCEPT !.isGR = FALSE], <<>>)
  ELSE Step([e EXCEPT !.isGR = FALSE, !.gl = g], <<LockGL(g)>>)

SetGR(e, g) ==
  IF e.gr = g THEN Step([e EXCEPT !.isGR = TRUE], <<>>)
  ELSE Step([e EXCEPT !.isGR = TRUE, !.gr = g], <<LockGR(g)>>)

FindGraphic(e, set) ==
  LET found == {g \in 0..3 : e.graphic[g] = set}
  IN IF found = {} THEN NotDesignated ELSE CHOOSE g \in found : \A other \in found : g <= other

IsKanaSet(set) == set \in {"Hiragana", "Katakana"}

\* Is the run at most two characters long, and of which set is the next character
\* that is not of this one (getCharsetRunLength, getNextCharset)?
ReadsAhead == [runIsShort : BOOLEAN, next : Charsets \cup {"None"}]

\* A shift is decided on where a run of kana begins, and none is left for other sets.
\* StaleShift, which leaves it, is a mistake that the code could have been written with.
StaleShift(e, set, g, ahead) ==
  IF IsKanaSet(set) /\ e.prevCharsetCode # set
  THEN (IF ahead.runIsShort /\ g \in {2, 3} THEN g ELSE 0) ELSE e.singleShift

SingleShift(e, set, g, ahead) ==
  IF ~IsKanaSet(set) THEN 0
  ELSE IF e.prevCharsetCode = set THEN e.singleShift
  ELSE IF ahead.runIsShort /\ g \in {2, 3} THEN g ELSE 0

UsesGR(e, set, ahead) ==
  IF IsKanaSet(set)
  THEN ahead.next # e.graphic[e.gr]
  ELSE set = "JISX0201Katakana"

\* A set that is in none of G0 to G3 takes the place of Kanji, or of letters.
Invoke(e, set, g, ahead) ==
  LET into == IF set = "JISX0201Katakana" THEN 1 ELSE 0
      designated == [e EXCEPT !.graphic[into] = set]
  IN CASE e.gl = g -> Step([e EXCEPT !.isGR = FALSE], <<>>)
       [] e.gl # g /\ e.gr = g -> Step([e EXCEPT !.isGR = TRUE], <<>>)
       [] g \notin {e.gl, e.gr} /\ e.singleShift # 0 ->
            Step([e EXCEPT !.isGR = FALSE], <<Single(e.singleShift)>>)
       [] g \notin {e.gl, e.gr} /\ e.singleShift = 0 /\ g # NotDesignated ->
            IF g # 0 /\ UsesGR(e, set, ahead) THEN SetGR(e, g) ELSE SetGL(e, g)
       [] g = NotDesignated /\ e.singleShift = 0 ->
            After(IF into = 1 THEN SetGR(designated, 1) ELSE SetGL(designated, 0),
                  <<Designate(into, set)>>)

\* selectCharset: in a caption, Kanji stand for additional symbols.
SentAs(set) == IF Caption /\ set = "AdditionalSymbols" THEN "JISKanjiPlane1" ELSE set

SelectCharset(e, set, ahead) ==
  LET g == FindGraphic(e, set)
      shifted == [e EXCEPT !.singleShift = SingleShift(e, set, g, ahead)]
      step == Invoke(shifted, set, g, ahead)
  IN [step EXCEPT !.enc.prevCharsetCode = set]
-----------------------------------------------------------------------------
Init ==
  /\ page \in Pages
  /\ place = IF page.glyphs = {} THEN "chunk" ELSE "start"
  /\ enc = EncoderInit(page.mode)
  /\ receiver = ReceiverInit(page.mode)
  /\ allocated = <<>>
  /\ said = None /\ seen = None

Send(codes, char, widths) ==
  /\ receiver' = [Received(codes) EXCEPT !.shows = None]
  /\ said' = [char |-> char, widths |-> widths]
  /\ seen' = Received(codes).shows

\* encodeImpl: a character for which there is a code.
EncodeCharacter(c, fullwidth) ==
  /\ place = "chunk"
  /\ Reachable(c) # {}
  /\ \E set \in Lookups(enc, c), ahead \in ReadsAhead :
       LET half == set = "Alphanumeric" /\ ~fullwidth
           sized == IF Caption THEN Step(enc, <<>>)
                    ELSE SetCharacterSize(enc, IF half THEN "half" ELSE "full")
           step == SelectCharset(sized.enc, SentAs(set), ahead)
       IN /\ enc' = step.enc
          /\ Send(sized.codes \o step.codes \o <<Code(step.enc.isGR, SentAs(set), c)>>, c,
                  {IF s = "Alphanumeric" /\ ~fullwidth THEN "half" ELSE "full" : s \in SetsOf[c]})
  /\ UNCHANGED <<page, place, allocated>>

\* Spaces are not of any set.
EncodeSpace ==
  LET sized == IF Caption THEN Step(enc, <<>>) ELSE SetCharacterSize(enc, "half")
  IN /\ place = "chunk"
     /\ enc' = sized.enc
     /\ receiver' = Received(sized.codes)
     /\ said' = [char |-> " ", widths |-> {"half"}]
     /\ seen' = [char |-> " ", width |-> Received(sized.codes).size]
     /\ UNCHANGED <<page, place, allocated>>

\* appendCaptionTextStateReset, and another Encoder, where text follows a glyph.
CaptionTextStateReset ==
  <<Designate(0, "JISKanjiPlane1"), Designate(2, "Hiragana"), LockGL(0)>>

BeginChunk ==
  /\ place # "chunk"
  /\ place' = "chunk"
  /\ enc' = EncoderInit(page.mode)
  /\ receiver' = Received(CaptionTextStateReset)
  /\ UNCHANGED <<page, allocated, said, seen>>

\* A glyph is sent in G2, and the chunk before it is ended even if there is no code
\* for the glyph.
Allocated(glyph) ==
  IF glyph \in Range(allocated) \/ Len(allocated) >= MaxCodes THEN allocated
  ELSE Append(allocated, glyph)

SendGlyph(glyph) ==
  /\ page.glyphs # {}
  /\ place' = "glyph"
  /\ allocated' = Allocated(glyph)
  /\ IF glyph \in Range(allocated')
     THEN Send(<<Designate(2, "DRCS"), Single(2), Code(FALSE, "DRCS", glyph), LockGL(0),
                 Designate(2, "Hiragana")>>, glyph, {"full"})
     ELSE UNCHANGED <<receiver, said, seen>>
  /\ UNCHANGED <<page, enc>>

Next ==
  \/ \E c \in page.characters :
       \/ EncodeCharacter(c, FALSE)
       \/ "Alphanumeric" \in SetsOf[c] /\ EncodeCharacter(c, TRUE)
  \/ EncodeSpace
  \/ BeginChunk
  \/ \E glyph \in page.glyphs : SendGlyph(glyph)

Spec == Init /\ [][Next]_vars
-----------------------------------------------------------------------------
\* The receiver shows the characters of the text, and in a text, where no style
\* gives their size, in their width: however long the text is, the encoder's idea of
\* G0 to G3 and of what is invoked is the receiver's at every character, also after
\* shifts for one character, designations and glyphs (selectCharset, setGL, setGR,
\* encode_text_with_drcs).
ShownAsWritten ==
  said # None =>
    /\ seen.char = said.char
    /\ ~Caption => seen.width \in said.widths

=============================================================================
