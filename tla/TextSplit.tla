------------------------------ MODULE TextSplit ------------------------------
(***************************************************************************)
(* split_text_semantic: the sentences of a text are grouped, in order,     *)
(* into the chunks that a provider is called with.                         *)
(*                                                                         *)
(* A text is given as its sentences, already stripped; which words they    *)
(* have does not matter, so a character is a blank or the letter at a      *)
(* given place of a given sentence.                                        *)
(***************************************************************************)
EXTENDS Naturals, FiniteSets, SequencesExt

CONSTANTS
  Shapes,   \* of sentences: sequences of BOOLEAN, TRUE for a letter
  MaxText,  \* sentences in a text (bound of the model)
  Limits,   \* max_chars: TTS_MAX_INPUT_CHARS
  Groups    \* max_sentences_per_chunk: a voice may have any, a request from 1 on

ASSUME SplitAssumption ==
  /\ Shapes \subseteq {s \in Seq(BOOLEAN) : Len(s) > 0 /\ s[1] /\ s[Len(s)]}
  /\ MaxText \in Nat /\ Limits \subseteq Nat \ {0} /\ Groups \subseteq Nat

VARIABLES
  text, limit, group,  \* the arguments; constant
  next,                \* of the sentences, the one the loop looks at
  cut,                 \* how much of it has been cut off
  current,             \* current_sentences
  chunks, returned

splitVars == <<text, limit, group, next, cut, current, chunks, returned>>

Space == <<0, 0>>
Sentence(i, shape) == [j \in DOMAIN shape |-> IF shape[j] THEN <<i, j>> ELSE Space]
Texts == UNION {[1..k -> Shapes] : k \in 1..MaxText}

SplitInit ==
  /\ \E t \in Texts : text = [i \in DOMAIN t |-> Sentence(i, t[i])]
  /\ limit \in Limits /\ group \in Groups
  /\ next = 1 /\ cut = 0 /\ current = << >> /\ chunks = << >> /\ returned = FALSE

\* str.strip
Strip(s) ==
  LET letters == {j \in DOMAIN s : s[j] # Space}
      first == CHOOSE j \in letters : \A k \in letters : j <= k
      last == CHOOSE j \in letters : \A k \in letters : k <= j
  IN IF letters = {} THEN << >> ELSE SubSeq(s, first, last)

\* " ".join
Join(sentences) ==
  FlattenSeq([i \in DOMAIN sentences |->
                IF i = 1 THEN sentences[i] ELSE <<Space>> \o sentences[i]])

Flushed == IF current = << >> THEN chunks ELSE Append(chunks, Strip(Join(current)))

InLoop == ~returned /\ next <= Len(text)
TooLong == Len(text[next]) > limit
Candidate == Strip(Join(Append(current, text[next])))

\* (faulty: the blank before the sentence is forgotten)
FullWithoutBlank ==
  current # << >> /\ (Len(current) >= group \/ Len(Join(current)) + Len(text[next]) > limit)

Full == current # << >> /\ (Len(current) >= group \/ Len(Candidate) > limit)

\* sentence[i : i + max_chars].strip()
LastCut == cut + limit >= Len(text[next])
Piece == Strip(SubSeq(text[next], cut + 1, IF LastCut THEN Len(text[next]) ELSE cut + limit))
WithPiece(strings) == IF Piece = << >> THEN strings ELSE Append(strings, Piece)

MoveOn ==
  \/ LastCut /\ cut' = 0 /\ next' = next + 1
  \/ ~LastCut /\ cut' = cut + limit /\ next' = next

\* (faulty: what was gathered before the sentence comes after it)
CutLongUnflushed ==
  /\ InLoop /\ TooLong
  /\ chunks' = WithPiece(chunks)
  /\ MoveOn
  /\ UNCHANGED <<text, limit, group, current, returned>>

\* A sentence over the limit never shares a chunk: what was gathered is
\* flushed before its first piece.
CutLong ==
  /\ InLoop /\ TooLong
  /\ chunks' = WithPiece(Flushed)
  /\ current' = << >>
  /\ MoveOn
  /\ UNCHANGED <<text, limit, group, returned>>

StartNew ==
  /\ InLoop /\ ~TooLong /\ Full
  /\ chunks' = Flushed
  /\ current' = <<text[next]>> /\ next' = next + 1
  /\ UNCHANGED <<text, limit, group, cut, returned>>

Extend ==
  /\ InLoop /\ ~TooLong /\ ~Full
  /\ current' = Append(current, text[next]) /\ next' = next + 1
  /\ UNCHANGED <<text, limit, group, cut, chunks, returned>>

Return ==
  /\ ~returned /\ next > Len(text)
  /\ chunks' = Flushed /\ returned' = TRUE
  /\ UNCHANGED <<text, limit, group, next, cut, current>>

SplitNext == CutLong \/ StartNew \/ Extend \/ Return
-----------------------------------------------------------------------------
(* Properties *)

Earlier(c, d) == c[1] < d[1] \/ (c[1] = d[1] /\ c[2] < d[2])

\* One string after the other, the letters come in the order of the text (so
\* none comes twice).
InOrder(strings) ==
  \A k, l \in DOMAIN strings : \A p \in DOMAIN strings[k], q \in DOMAIN strings[l] :
    Earlier(<<k, p>>, <<l, q>>) /\ Space \notin {strings[k][p], strings[l][q]} =>
      Earlier(strings[k][p], strings[l][q])

Letters(strings) == (UNION {ToSet(strings[k]) : k \in DOMAIN strings}) \ {Space}

\* The sentences that a chunk has letters of.
Within(chunk) == {i \in DOMAIN text : (ToSet(text[i]) \cap ToSet(chunk)) \ {Space} # {}}
Fits(i) == Len(text[i]) <= limit

\* Every letter of the text is spoken once and in its place, wherever the
\* long sentences are (so a text that is not blank has a chunk): at any time
\* the chunks and what is gathered for the next one are all of the text up to
\* where the loop is.
NothingLost ==
  LET spoken == IF returned THEN chunks ELSE Append(chunks, Join(current))
  IN /\ InOrder(spoken)
     /\ Letters(spoken) = {c \in Letters(text) : Earlier(c, <<next, cut + 1>>)}

\* The docstring's two limits: a chunk has at most max_chars characters and
\* max_sentences_per_chunk sentences (one, when that is zero), and it is never
\* empty; a sentence that fits into a chunk is not divided
\* (test_tts_chunking.py).
ChunksFit ==
  \A k \in DOMAIN chunks :
    LET whole == {i \in Within(chunks[k]) : Fits(i)}
    IN /\ Len(chunks[k]) \in 1..limit
       /\ Cardinality(whole) <= 1 \/ Cardinality(whole) <= group
       /\ \A i \in whole : ToSet(text[i]) \subseteq ToSet(chunks[k])
=============================================================================
