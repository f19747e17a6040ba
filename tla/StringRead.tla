----------------------------- MODULE StringRead -----------------------------
(***************************************************************************)
(* A script reads the text in a field: GetFieldValueString                 *)
(* (SDbgM/SptWrapper/SptWrapper_Fields.cs), which asks for its size, makes *)
(* a buffer and asks for the text, over GetFieldValueString and ReadString *)
(* (SDbgCore/src/ClrProcess_Fields.cpp).  Each of the two calls follows the*)
(* field anew, in a target that may run meanwhile.                         *)
(***************************************************************************)
EXTENDS Naturals, FiniteSetsExt

CONSTANTS
  Addresses,  (* where strings may be                                      *)
  Lengths,    (* how many characters they may have                         *)
  Spare,      (* what is added to a StringBuilder's buffer when marshalled *)
  Happenings  (* bound: how often the target does something                *)

NoText == 99                          \* no text

(* What is at an address: a string of n characters, another object, whose  *)
(* second word is taken for a length, or memory that cannot be read.       *)
Contents == [kind: {"string", "other", "unread"}, n: Lengths]

\* What the module takes for granted of its parameters.
StringReadAssumption ==
  /\ Lengths \subseteq Nat /\ NoText \notin Lengths
  /\ Spare \in {0, 1} /\ Happenings \in Nat

VARIABLES
  reference,  (* the string that the field refers to                       *)
  heap,       (* what is at each address                                   *)
  reading,    (* the read, see Reading                                     *)
  happened,   (* what the target has done                                  *)
  since       (* whether it has done something since the size was read     *)

textVars == <<reference, heap, reading, happened, since>>

(* at: the pointer that has been read.  size: strLen, in bytes.  text: the *)
(* length of the string that is returned.                                  *)
Reading ==
  [pc: {"pointer", "size", "again", "text", "returned", "overrun", "raised"},
   at: Addresses, size: {2 * (n + 1) : n \in Lengths} \cup {0}, text: Nat]

TextInit ==
  /\ reference \in Addresses
  /\ heap \in [Addresses -> Contents]
  /\ heap[reference].kind = "string"
  /\ reading = [pc |-> "pointer", at |-> reference, size |-> 0, text |-> NoText]
  /\ happened = 0 /\ since = FALSE

Reads(p, f) == reading.pc = p /\ reading' = f /\ UNCHANGED <<reference, heap, happened>>
Raised == [reading EXCEPT !.pc = "raised"]

(* GetFieldValuePtr, of the first call and of the second.                  *)
ReadPointer == Reads("pointer", [reading EXCEPT !.pc = "size", !.at = reference]) /\ UNCHANGED since
ReadAgain == Reads("again", [reading EXCEPT !.pc = "text", !.at = reference]) /\ UNCHANGED since

\* A slip: the terminator is not counted.
ReadSizeShort ==
  /\ Reads("size", IF heap[reading.at].kind = "unread" THEN Raised
                   ELSE [reading EXCEPT !.pc = "again", !.size = 2 * heap[reading.at].n])
  /\ since' = (reference # reading.at)

(* ReadString without a buffer: the length is read at the pointer, be there*)
(* a string any more or not.                                               *)
ReadSize ==
  /\ Reads("size", IF heap[reading.at].kind = "unread" THEN Raised
                   ELSE [reading EXCEPT !.pc = "again", !.size = 2 * (heap[reading.at].n + 1)])
  /\ since' = (reference # reading.at)

\* A slip: the size is taken for twice the number of bytes.
RoomHalved == reading.size \div 4 + Spare

(* The buffer of a StringBuilder for size / 2 characters.                  *)
Room == reading.size \div 2 + Spare

\* A slip: no more is copied than the first string had.
CopiedCut(n) == Min({n + 1, reading.size \div 2})

(* GetObjectStringData is given the size in bytes for a number of          *)
(* characters and copies so many of the text and its terminator.           *)
Copied(n) == Min({n + 1, reading.size})

ReadText ==
  LET n == heap[reading.at].n IN
  /\ Reads("text", IF heap[reading.at].kind # "string" THEN Raised
                   ELSE IF Copied(n) > Room THEN [reading EXCEPT !.pc = "overrun"]
                   ELSE [reading EXCEPT !.pc = "returned", !.text = Copied(n) - 1])
  /\ UNCHANGED since

Event ==
  /\ happened < Happenings /\ happened' = happened + 1
  /\ since' = (since \/ reading.pc \in {"again", "text"})

(* The program stores another string into the field.                       *)
Assign ==
  /\ Event
  /\ \E a \in Addresses : heap[a].kind = "string" /\ reference' = a
  /\ UNCHANGED <<heap, reading>>

(* The collector moves the string, over what is elsewhere; where it was,   *)
(* there may be anything.                                                  *)
Move ==
  /\ Event
  /\ \E a \in Addresses \ {reference}, c \in Contents :
       /\ reference' = a
       /\ heap' = [heap EXCEPT ![a] = heap[reference], ![reference] = c]
  /\ UNCHANGED reading

ReadCall == ReadPointer \/ ReadSize \/ ReadAgain \/ ReadText
TextNext == ReadCall \/ Assign \/ Move

TextSpec == TextInit /\ [][TextNext]_textVars

-----------------------------------------------------------------------------
TextTypeOK ==
  /\ reference \in Addresses /\ heap \in [Addresses -> Contents]
  /\ reading \in Reading /\ happened \in 0..Happenings /\ since \in BOOLEAN

(* More is written into the buffer than it holds only if the program or the*)
(* collector has done something since the size was read.                   *)
OverrunExplained == TextTypeOK /\ (reading.pc = "overrun" => since)

(* A text that is returned is not cut: it is the whole of the string that  *)
(* the field referred to at the second look, however long the first was,   *)
(* unless the first was empty: then it may be cut to one character.        *)
ReturnsWhole ==
  (reading.pc = "text" /\ reading'.pc = "returned") =>
    reading'.text = heap[reading.at].n \/ (reading.size = 2 /\ reading'.text = 1)

TextWhole == [][ReturnsWhole]_textVars
=============================================================================
