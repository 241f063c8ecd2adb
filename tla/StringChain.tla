------------------------------ MODULE StringChain ------------------------------
(***************************************************************************)
(* The links of a string (gensyn_string_chain_* of src/string.c): the      *)
(* program takes the lines of what amidi prints, and the words of a line,  *)
(* from a string by walking over it.  A string is walked by a for loop     *)
(* that starts the chain, and proceeds until the chain is at its end.  The *)
(* loops over the characters take one turn a step, and so does the loop    *)
(* that makes room for a chunk.                                            *)
(*                                                                         *)
(* Abstracted: the characters, which are delimiters or not.                *)
(***************************************************************************)
EXTENDS Naturals, Sequences, FiniteSets

CONSTANTS
  Char,       \* what strings are made of
  MaxLen,     \* bound: the length of a string
  ChunkSize,  \* chunk_size
  Prealloc    \* prealloc_size

ASSUME ChainAssumption ==
  /\ MaxLen \in Nat
  /\ ChunkSize \in Nat /\ ChunkSize >= 2
  /\ Prealloc \in Nat /\ Prealloc >= 3

VARIABLES
  text,       \* the string
  delims,     \* the characters of its delimiters
  iter,       \* how far the chain has come
  link, room, \* the link: its text and the bytes allocated for it
  chunk,      \* what is gathered of it
  cpc,        \* where the walk is
  links       \* the links the loop's body has seen

walk      == <<iter, link, room, chunk, cpc, links>>
chainVars == <<text, delims, walk>>

BoundedStrings == UNION {[1 .. n -> Char] : n \in 0 .. MaxLen}

ChainInit ==
  /\ text \in BoundedStrings
  /\ delims = {}
  /\ iter = 0 /\ link = <<>> /\ room = Prealloc
  /\ chunk = <<>> /\ cpc = "new" /\ links = <<>>

(* gensyn_string_chain_start, then gensyn_string_chain_proceed. *)
ChainStart(d) ==
  /\ cpc \in {"new", "done"}
  /\ delims' = d
  /\ iter' = 0
  /\ cpc' = "skip"
  /\ links' = <<>>
  /\ UNCHANGED <<text, link, room, chunk>>

SkipDelimiter ==
  /\ cpc = "skip"
  /\ iter < Len(text) /\ text[iter + 1] \in delims
  /\ iter' = iter + 1
  /\ UNCHANGED <<text, delims, link, room, chunk, cpc, links>>

(* The chain is at its end one character behind the string. *)
SkippedToEnd ==
  /\ cpc = "skip"
  /\ iter >= Len(text)
  /\ link' = <<>>
  /\ iter' = Len(text) + 1
  /\ cpc' = "returned"
  /\ UNCHANGED <<text, delims, room, chunk, links>>

Skipped ==
  /\ cpc = "skip"
  /\ iter < Len(text) /\ text[iter + 1] \notin delims
  /\ link' = <<>>
  /\ chunk' = <<>>
  /\ cpc' = "gather"
  /\ UNCHANGED <<text, delims, iter, room, links>>

(* A character is gathered unless it is a delimiter that ends the link. *)
Gathers == iter < Len(text) /\ (text[iter + 1] \notin delims \/ chunk = <<>>)

Full == Len(chunk) = ChunkSize - 1

(* Mistake: no room is kept for the terminator. *)
NeedsRoomLate == Len(link) + Len(chunk) > room

(* gensyn_string_concat_cstr, of the chunk to the link: its loop takes a   *)
(* turn a step.                                                            *)
NeedsRoom == Len(link) + Len(chunk) + 1 >= room

GrowLink ==
  /\ cpc = "gather"
  /\ Gathers => Full
  /\ NeedsRoom
  /\ room' = (14 * room) \div 10
  /\ UNCHANGED <<text, delims, iter, link, chunk, cpc, links>>

ConcatChunk ==
  /\ ~NeedsRoom
  /\ link' = link \o chunk

(* A delimiter ends the link. *)
LinkEnds ==
  /\ cpc = "gather"
  /\ iter < Len(text) /\ ~Gathers
  /\ ConcatChunk
  /\ cpc' = "returned"
  /\ UNCHANGED <<text, delims, iter, room, chunk, links>>

(* Mistake: the full chunk is written over by the next character. *)
GatherOver ==
  /\ cpc = "gather"
  /\ Gathers
  /\ chunk' = IF Full THEN <<text[iter + 1]>> ELSE Append(chunk, text[iter + 1])
  /\ iter' = iter + 1
  /\ UNCHANGED <<text, delims, link, room, cpc, links>>

(* Any other character is gathered, and a full chunk goes into the link    *)
(* before it.                                                              *)
Gather ==
  /\ cpc = "gather"
  /\ Gathers
  /\ IF Full
     THEN ConcatChunk /\ chunk' = <<text[iter + 1]>>
     ELSE chunk' = Append(chunk, text[iter + 1]) /\ UNCHANGED link
  /\ iter' = iter + 1
  /\ UNCHANGED <<text, delims, room, cpc, links>>

GatheredToEnd ==
  /\ cpc = "gather"
  /\ iter >= Len(text)
  /\ iter' = Len(text)
  /\ ConcatChunk
  /\ cpc' = "returned"
  /\ UNCHANGED <<text, delims, room, chunk, links>>

AtEnd == iter > Len(text)    \* gensyn_string_chain_is_end

(* The for loop of the caller. *)
UseLink ==
  /\ cpc = "returned"
  /\ IF AtEnd
     THEN cpc' = "done" /\ UNCHANGED links
     ELSE cpc' = "skip" /\ links' = Append(links, link)
  /\ UNCHANGED <<text, delims, iter, link, room, chunk>>

ChainNext ==
  \/ \E d \in SUBSET Char : ChainStart(d)
  \/ SkipDelimiter \/ SkippedToEnd \/ Skipped
  \/ GrowLink \/ LinkEnds \/ Gather \/ GatheredToEnd
  \/ UseLink

ChainSpec == ChainInit /\ [][ChainNext]_chainVars

-----------------------------------------------------------------------------
(* Properties. *)

ChainTypeOK ==
  /\ text \in BoundedStrings /\ delims \subseteq Char
  /\ iter \in 0 .. Len(text) + 1
  /\ link \in Seq(Char) /\ room \in Nat
  /\ Len(chunk) < ChunkSize
  /\ cpc \in {"new", "skip", "gather", "returned", "done"}

(* The longest parts of the text without a delimiter, in their order. *)
Starts(t, d) == {i \in 1 .. Len(t) : t[i] \notin d /\ (i = 1 \/ t[i - 1] \in d)}

FieldAt(t, d, i) ==
  LET ends == {j \in i .. Len(t) : \A k \in i .. j : t[k] \notin d}
  IN  SubSeq(t, i, CHOOSE j \in ends : \A k \in ends : k <= j)

StartsUpTo(t, d, n) == {i \in Starts(t, d) : i <= n}

Fields(t, d) ==
  [k \in 1 .. Cardinality(Starts(t, d)) |->
     FieldAt(t, d, CHOOSE i \in Starts(t, d) : Cardinality(StartsUpTo(t, d, i)) = k)]

(* string.h: a chain gives the substrings between the delimiters, whatever *)
(* delimiters stand at an end or follow each other (lines 264-283), and    *)
(* however many chunks a link takes (line 297); and all of them: the walk  *)
(* neither ends early nor gives an empty one at the end.                   *)
LinksAreFields ==
  /\ Len(links) <= Len(Fields(text, delims))
  /\ \A k \in 1 .. Len(links) : links[k] = Fields(text, delims)[k]
  /\ cpc = "done" => Len(links) = Len(Fields(text, delims))

(* Whatever is appended in chunks, the bytes of line 65 end, with their    *)
(* terminator, inside what line 61 has allocated.                          *)
LinkFits == Len(link) < room
=============================================================================
