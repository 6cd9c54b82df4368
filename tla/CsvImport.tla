------------------------------ MODULE CsvImport ------------------------------
(***************************************************************************)
(* A file on its way into an import.  It is read once to show what would   *)
(* be imported, sent back by the form, and read again to be imported; the  *)
(* browser rewrites its newlines in between.                               *)
(*                                                                         *)
(* A text is a sequence of characters, told apart as the reader tells them *)
(* apart: "quote", "comma", "cr", "lf", "space", "tab", "formula" (one of  *)
(* = + - @), and letters.  A file is small enough to be looked at.         *)
(***************************************************************************)
EXTENDS ImportBatches

CONSTANT Columns    (* by header: is it required, and how long a value may *)
                    (* be                                                  *)

ASSUME TextsAssumption ==
  \A name \in DOMAIN Plans : \A text \in Plans[name].texts : text \in Seq(Range(text))

Newlines == {"cr", "lf"}
Blanks   == Newlines \cup {"space", "tab"}

At0(text, i) == IF i \in DOMAIN text THEN text[i] ELSE "end"

(* A newline of any kind, at its first character.                          *)
NewlineAt(text, i) == At0(text, i) \in Newlines /\ ~(text[i] = "lf" /\ At0(text, i - 1) = "cr")

(* What the character i becomes.                                           *)
Given(text, newline, i) ==
  IF NewlineAt(text, i) THEN newline ELSE IF text[i] \in Newlines THEN <<>> ELSE <<text[i]>>

WithNewlines(text, newline) == FlattenSeq([i \in DOMAIN text |-> Given(text, newline, i)])

(* What a form posts of a text.                                            *)
Posted(text) == WithNewlines(text, <<"cr", "lf">>)

(* Variant: the file is read as it came.                                   *)
Normalised_No(text) == text

(* Before it is hashed and before it is read.                              *)
Normalised(text) == WithNewlines(text, <<"lf">>)

-----------------------------------------------------------------------------
(* parseCsv, over the characters of the text.                              *)

Start == [records |-> <<>>, record |-> <<>>, cell |-> <<>>, quoted |-> FALSE, started |-> FALSE,
          closed |-> FALSE, skip |-> FALSE, bad |-> FALSE]

WithCell(s)  == Append(s.record, s.cell)
EndCell(s)   == [s EXCEPT !.record = WithCell(s), !.cell = <<>>, !.started = TRUE, !.closed = FALSE]
EndRecord(s) == [s EXCEPT !.records = Append(@, WithCell(s)), !.record = <<>>, !.cell = <<>>,
                          !.started = FALSE, !.closed = FALSE]

(* The character i, inside quotes.                                         *)
Quoted(s, text, i) ==
  IF text[i] # "quote" THEN [s EXCEPT !.cell = Append(@, text[i])]
  ELSE IF At0(text, i + 1) = "quote" THEN [s EXCEPT !.cell = Append(@, "quote"), !.skip = TRUE]
  ELSE [s EXCEPT !.quoted = FALSE, !.closed = TRUE]

(* The character i, outside; a quote is only special before anything else. *)
Plain(s, text, i) ==
  IF s.closed /\ text[i] \notin Newlines \cup {"comma"} THEN [s EXCEPT !.bad = TRUE]
  ELSE CASE text[i] = "quote" /\ s.cell = <<>> -> [s EXCEPT !.quoted = TRUE, !.started = TRUE]
         [] text[i] = "comma"    -> EndCell(s)
         [] text[i] \in Newlines -> [EndRecord(s) EXCEPT !.skip = text[i] = "cr" /\ At0(text, i + 1) = "lf"]
         [] OTHER                -> [s EXCEPT !.cell = Append(@, text[i]), !.started = TRUE]

Character(s, text, i) ==
  IF s.bad THEN s
  ELSE IF s.skip THEN [s EXCEPT !.skip = FALSE]
  ELSE IF s.quoted THEN Quoted(s, text, i) ELSE Plain(s, text, i)

Scanned(text) == FoldLeftDomain(LAMBDA s, i : Character(s, text, i), Start, text)

Trimmed(cell) ==
  LET kept == {i \in DOMAIN cell : cell[i] \notin Blanks}
  IN  IF kept = {} THEN <<>>
      ELSE SubSeq(cell, CHOOSE i \in kept : \A j \in kept : i <= j, CHOOSE i \in kept : \A j \in kept : j <= i)

IsBlank(record) == \A i \in DOMAIN record : Trimmed(record[i]) = <<>>

(* The records that say something.                                         *)
Saying(records) ==
  FlattenSeq([i \in DOMAIN records |-> IF IsBlank(records[i]) THEN <<>> ELSE <<records[i]>>])

(* These of a text, or none when it cannot be read.                        *)
RecordsOf(text) ==
  LET s    == Scanned(text)
      last == IF s.started \/ s.cell # <<>> THEN EndRecord(s) ELSE s
  IN  IF s.bad \/ s.quoted THEN <<>> ELSE Saying(last.records)

-----------------------------------------------------------------------------
(* readRows.                                                               *)

looksLikeFormula(cell) ==
  \/ cell # <<>> /\ cell[1] \in Newlines \cup {"tab"}
  \/ Trimmed(cell) # <<>> /\ Trimmed(cell)[1] = "formula"

Header(records) == [i \in DOMAIN records[1] |-> Trimmed(records[1][i])]

HeaderFits(header) ==
  /\ IsInjective(header)
  /\ \A i \in DOMAIN header : header[i] \in DOMAIN Columns
  /\ \A c \in DOMAIN Columns : Columns[c].required => c \in Range(header)

CellFits(column, cell) ==
  /\ ~looksLikeFormula(cell)
  /\ Columns[column].required => Trimmed(cell) # <<>>
  /\ Len(Trimmed(cell)) <= Columns[column].max

RowFits(header, record) ==
  Len(record) = Len(header) /\ \A i \in DOMAIN header : CellFits(header[i], record[i])

(* What examine makes of a text: the rows it can import, None when there   *)
(* is an issue anywhere.                                                   *)
Read(text) ==
  LET records == RecordsOf(Normalised(text))
  IN  IF /\ records # <<>>
         /\ HeaderFits(Header(records))
         /\ \A i \in 2..Len(records) : RowFits(Header(records), records[i])
      THEN [i \in 1..(Len(records) - 1) |->
              [c \in Range(Header(records)) |->
                 Trimmed(records[i + 1][CHOOSE k \in DOMAIN records[1] : Header(records)[k] = c])]]
      ELSE None

(* sha256Hex tells normalised texts apart.                                 *)
Hash(text) == Normalised(text)

-----------------------------------------------------------------------------
(* previewImport and applyImport, as far as the text goes.                 *)

BeginPreviewImport(t) ==
  /\ \A s \in Requests : pc[s] = "idle"
  /\ \E text \in Plan.texts : Begin(t, "previewImport", text, "previewImport", <<>>)
  /\ UNCHANGED batches

(* The form sends the text back when rows and no issues are shown.         *)
PreviewImport(t) ==
  /\ At(t, "previewImport")
  /\ LET text == req[t].arg
     IN  IF Read(text) \in {None, <<>>}
         THEN Done(t)
         ELSE Goto(t, "applyImport", <<>>, [checked |-> Read(text), hash |-> Hash(text), csv |-> Posted(text)])
  /\ UNCHANGED <<plan, active, batches>>

Importable(t) == req[t].saw.hash = Hash(req[t].saw.csv)

ApplyImport(t) ==
  /\ At(t, "applyImport")
  /\ Done(t)
  /\ UNCHANGED <<plan, active, batches>>

CsvStep(t) == BeginPreviewImport(t) \/ PreviewImport(t) \/ ApplyImport(t)
=============================================================================
