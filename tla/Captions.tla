------------------------------ MODULE Captions ------------------------------
(***************************************************************************)
(* Captions on their way into the transport stream (RemuxerHandler): the   *)
(* media clock that PCR values set, the glyphs of characters that no code  *)
(* has, the captions that wait for such glyphs, the times given to what a  *)
(* document converts to, and the management data a receiver needs first.   *)
(*                                                                         *)
(* One caption asset.  A document is known by its number, the codes it     *)
(* uses, the reference time signalled with it, and the statements it       *)
(* converts to (B24SubtitleConverter): each has an offset to the           *)
(* document's time, or None, and may be one that clears the screen.        *)
(***************************************************************************)
EXTENDS Integers, Sequences

CONSTANTS
  Codes,        \* code points whose glyphs are sent as resources
  Menu,         \* documents that may be sent: [codes, reference, says], the
                \* last a sequence of [begin, clear]
  MaxPending,   \* MAX_PENDING_SUBTITLE_TTML: 32 in the code
  MaxLead,      \* kMaxSubtitleLead90k: 30 s
  Cadence,      \* of management data: 0.5 s
  PcrInterval,  \* of PCR values, at least: 50 ms
  Start, End,   \* bound: the times of the broadcast
  MaxDocuments, \* bound: documents sent
  MaxResources, \* bound: resources sent
  None

\* begin.value_or(0)
Offset(begin) == IF begin = None THEN 0 ELSE begin

CaptionsAssumption ==
  /\ MaxPending \in Nat \ {0} /\ MaxLead \in Nat /\ PcrInterval \in Nat \ {0}
  /\ Cadence \in Nat \ {0} /\ Start \in Nat /\ End \in Nat /\ Cadence <= Start /\ Start < End
  /\ MaxDocuments \in Nat /\ MaxResources \in Nat /\ None \notin Nat
  /\ \A d \in Menu :
       /\ d.codes \subseteq Codes /\ d.reference \in Nat \cup {None}
       /\ d.says \in Seq([begin : Nat \cup {None}, clear : BOOLEAN]) \ {<<>>}
       \* the order that convertAndWriteSubtitle relies on
       /\ \A i, j \in DOMAIN d.says : i < j => Offset(d.says[i].begin) <= Offset(d.says[j].begin)

VARIABLES
  clock,      \* lastPcr / 300, also lastWrittenPcr: 0 before the first PCR
  managed,    \* lastCaptionManagementDataPts
  glyphs,     \* mapSubtitleDrcsGlyphs: the resource a code's glyph is from, or 0
  pending,    \* mapPendingSubtitleTtml
  shown,      \* the documents written in the last step, with their statements
  sent,       \* documents sent so far
  resources,  \* resources sent so far
  fates,      \* history: how often a document was written or dropped
  told,       \* history: the time when management data was last written, or None
  early       \* history: a document was written before there was a clock

vars == <<clock, managed, glyphs, pending, shown, sent, resources, fates, told, early>>

Numbered(d, n) == [id |-> n, codes |-> d.codes, reference |-> d.reference, says |-> d.says]

Documents == {Numbered(d, n) : d \in Menu, n \in 1..MaxDocuments}

TypeOK ==
  /\ clock \in 0..End /\ managed \in Nat
  /\ glyphs \in [Codes -> 0..MaxResources]
  /\ pending \in Seq(Documents) /\ Len(pending) <= MaxPending
  /\ sent \in 0..MaxDocuments /\ resources \in 0..MaxResources
  /\ fates \in [1..MaxDocuments -> 0..2]
  /\ told \in Nat \cup {None} /\ early \in BOOLEAN

Init ==
  /\ clock = 0 /\ managed = 0
  /\ glyphs = [c \in Codes |-> 0] /\ pending = <<>> /\ shown = <<>>
  /\ sent = 0 /\ resources = 0
  /\ fates = [d \in 1..MaxDocuments |-> 0]
  /\ told = None /\ early = FALSE

-----------------------------------------------------------------------------
(* Mutated forms of definitions below.                                     *)

KeepPending(document, known) == TRUE

EachAtItsOwnShift(base, begin, first) ==
  LET pts == base + begin IN IF pts < clock THEN clock ELSE pts

ManagedAtPts(pts) == pts

-----------------------------------------------------------------------------
(* The clock, and management data.                                         *)

\* writePcr
Clock(t) == clock' = (IF clock # 0 /\ t < clock + PcrInterval THEN clock ELSE t)

\* writeCaptionManagementData for a time t, written at the time `now'; m is
\* [managed, told].
Due(m, t) == m.managed + Cadence <= t

Managed(m, t, now) ==
  IF ~Due(m, t) THEN m
  ELSE [managed |-> IF m.managed = 0 \/ m.managed + 2 * Cadence <= t
                    THEN t ELSE m.managed + Cadence,
        told    |-> now]

-----------------------------------------------------------------------------
(* convertAndWriteSubtitle.                                                *)

\* The time of a document: its reference time unless that is far ahead of the
\* clock, which also stands in where none is signalled.
Base(d) ==
  LET far == clock # 0 /\ d.reference # None
               /\ d.reference + Offset(d.says[1].begin) > clock + MaxLead
  IN IF d.reference = None \/ far THEN clock ELSE d.reference

\* A late document is shifted as a whole.
Shifted(base, begin, first) ==
  base + begin + (IF base + first < clock THEN clock - (base + first) ELSE 0)

PtsOf(d, statement) ==
  LET pts == Shifted(Base(d), Offset(statement.begin), Offset(d.says[1].begin))
  IN IF statement.clear /\ clock # 0 /\ pts > clock THEN clock ELSE pts

\* The time at which writeSubtitle has management data written.
ManagementTime(pts) == IF clock # 0 /\ clock < pts THEN clock ELSE pts

HasTime(d) == d.reference # None \/ clock # 0

\* Management data, [managed, told], after the first n statements of a document.
Informing(m, d, n) ==
  LET after[k \in 0..Len(d.says)] ==
        IF k = 0 THEN m ELSE Managed(after[k - 1], ManagementTime(PtsOf(d, d.says[k])), clock)
  IN  after[n]

Informed(m) == m.told # None /\ m.told > clock - Cadence

Converted(m, d, known) ==
  [glyphs |-> {known[c] : c \in d.codes},
   statements |-> [n \in DOMAIN d.says |->
     [begin |-> Offset(d.says[n].begin), clear |-> d.says[n].clear, pts |-> PtsOf(d, d.says[n]),
      informed |-> Informed(Informing(m, d, n))]]]

\* Those documents of a sequence that are in a set, in their order.
Picked(documents, chosen) ==
  LET first[k \in 0..Len(documents)] ==
        IF k = 0 THEN <<>>
        ELSE IF documents[k] \in chosen THEN Append(first[k - 1], documents[k])
        ELSE first[k - 1]
  IN  first[Len(documents)]

\* Management data after the first n of some documents.
InformingAll(m, documents, n) ==
  LET after[k \in 0..Len(documents)] ==
        IF k = 0 THEN m ELSE Informing(after[k - 1], documents[k], Len(documents[k].says))
  IN  after[n]

\* One document after the other, but those without a time.
Write(documents, known) ==
  LET timed == Picked(documents, {d \in Documents : HasTime(d)})
      m     == [managed |-> managed, told |-> told]
      after == InformingAll(m, timed, Len(timed))
  IN /\ managed' = after.managed /\ told' = after.told
     /\ shown' = [k \in 1..Len(timed) |-> Converted(InformingAll(m, timed, k - 1), timed[k], known)]
     /\ early' = (early \/ (clock = 0 /\ timed # <<>>))

Settled(ids) == [d \in 1..MaxDocuments |-> IF d \in ids THEN fates[d] + 1 ELSE fates[d]]

-----------------------------------------------------------------------------
(* onSubtitleData.                                                         *)

Missing(d, known) == \E c \in d.codes : known[c] = 0

\* Glyphs that are known already stay as they are.
Known(codes) == [c \in Codes |-> IF c \in codes /\ glyphs[c] = 0 THEN resources + 1 ELSE glyphs[c]]

Keeps(document, known) == Missing(document, known)

ReceiveResource ==
  /\ resources < MaxResources
  /\ resources' = resources + 1
  /\ \E codes \in SUBSET Codes \ {{}} :
       LET known == Known(codes)
           ready == Picked(pending, {d \in Documents : ~Missing(d, known)})
       IN /\ glyphs' = known
          /\ pending' = Picked(pending, {d \in Documents : Keeps(d, known)})
          /\ Write(ready, known)
          /\ fates' = Settled({ready[i].id : i \in DOMAIN ready})
  /\ UNCHANGED <<clock, sent>>

\* The oldest caption is dropped if too many wait.
Queued(d) ==
  LET full == Len(pending) >= MaxPending
  IN /\ pending' = Append(IF full THEN Tail(pending) ELSE pending, d)
     /\ fates' = Settled(IF full THEN {pending[1].id} ELSE {})

ReceiveDocument ==
  /\ sent < MaxDocuments
  /\ sent' = sent + 1
  /\ \E item \in Menu :
       LET d == Numbered(item, sent + 1)
       IN IF Missing(d, glyphs)
          THEN /\ Queued(d)
               /\ shown' = <<>>
               /\ UNCHANGED <<managed, told, early>>
          ELSE /\ UNCHANGED pending
               /\ Write(<<d>>, glyphs)
               /\ fates' = Settled({d.id})
  /\ UNCHANGED <<clock, glyphs, resources>>

-----------------------------------------------------------------------------
(* Other steps.                                                            *)

\* The times that follow the clock, or begin it.
Times == IF clock = 0 THEN Start..(Start + 1) ELSE {t \in (clock - 1)..(clock + 2) : t <= End}

ReceiveVideo ==
  /\ \E t \in Times : Clock(t)
  /\ shown' = <<>>
  /\ UNCHANGED <<managed, glyphs, pending, sent, resources, fates, told, early>>

ReceiveNtp ==
  /\ \E t \in Times :
       /\ Clock(t)
       /\ LET m == Managed([managed |-> managed, told |-> told], t, t)
          IN managed' = m.managed /\ told' = m.told
  /\ shown' = <<>>
  /\ UNCHANGED <<glyphs, pending, sent, resources, fates, early>>

\* RemuxerHandler::clear; the next channel begins with the numbers left.
Clear ==
  /\ clock' = 0 /\ managed' = 0
  /\ glyphs' = [c \in Codes |-> 0] /\ pending' = <<>> /\ shown' = <<>>
  /\ fates' = Settled({pending[i].id : i \in DOMAIN pending})
  /\ told' = None /\ early' = FALSE
  /\ UNCHANGED <<sent, resources>>

Next == ReceiveResource \/ ReceiveDocument \/ ReceiveVideo \/ ReceiveNtp \/ Clear

Spec == Init /\ [][Next]_vars

-----------------------------------------------------------------------------
(* Properties.                                                             *)

\* A caption received is written or dropped once, or waits and is neither; and
\* what is written has all the glyphs it uses.
EachCaptionOnce ==
  /\ \A d \in 1..sent : fates[d] = (IF \E i \in DOMAIN pending : pending[i].id = d THEN 0 ELSE 1)
  /\ \A i \in DOMAIN shown : 0 \notin shown[i].glyphs

\* With a clock, nothing is put before it, nothing much further ahead than a
\* believable lead, and no clearing of the screen after it; and the statements
\* of a document keep their distances.
ShownInTime ==
  clock # 0 =>
    \A i \in DOMAIN shown :
      LET s == shown[i].statements
      IN /\ \A j \in DOMAIN s : s[j].pts >= clock
         /\ s[1].pts <= clock + MaxLead + s[1].begin
         /\ \A j \in DOMAIN s : s[j].clear => s[j].pts = clock
         /\ \A j \in DOMAIN s \ {1} :
              ~s[1].clear /\ ~s[j].clear => s[j].pts - s[1].pts = s[j].begin - s[1].begin

\* Management data was written less than its interval before each statement,
\* so that the receiver knows the language, unless a document was written
\* before there was a clock.
LanguageIsKnown ==
  ~early => \A i \in DOMAIN shown : \A j \in DOMAIN shown[i].statements :
              shown[i].statements[j].informed

=============================================================================
