------------------------------- MODULE IniFile -------------------------------
(***************************************************************************)
(* The configuration file (libcwmp/src/ini.c, called by cfg.c where        *)
(* SYS_DATA_MODE is not defined): one setting is looked up or written, and *)
(* a write copies the file line by line to a twin whose name ends in "~",  *)
(* removes the file and renames the twin. Blank lines and the case of      *)
(* names are left out. The process may die between any two steps.          *)
(***************************************************************************)
EXTENDS Naturals, SequencesExt

CONSTANTS
  IniStarts,    \* the files there may be at first, sequences of lines
  IniNames,     \* <<section, key>> of the settings, written "section:key"
  IniTexts,     \* values
  MaxIniPuts,   \* bound: calls of cwmp_conf_set
  MaxIniCrashes \* bound: deaths of the process

NoText == ""
IniLine == [kind : {"section", "entry", "comment"}, name : STRING,
            text : STRING \cup {NoText},  \* NoText where there is none
            quoted : BOOLEAN, padded : BOOLEAN]
  \* padded: blanks between the key and "="; quoted: the value has quotes

SectionLine(s) ==
  [kind |-> "section", name |-> s, text |-> NoText, quoted |-> FALSE, padded |-> FALSE]

NoIniFile == << [SectionLine(NoText) EXCEPT !.kind = "no file"] >>

VARIABLES
  iniFile,    \* the lines of the file, or NoIniFile
  iniTwin,    \* those of the twin
  iniJob,     \* where ini_puts is, and for which name and value
  iniGot,     \* what the last reader got
  iniKnown,   \* history: the value of each setting once its write took effect
  iniLost,    \* history: a new file was begun while the twin held the settings
  iniCrashes, iniPuts

iniVars == <<iniFile, iniTwin, iniJob, iniGot, iniKnown, iniLost, iniCrashes, iniPuts>>

\* A value to write: a text in quotes or not, or NULL, which erases.
Erase == [text |-> "NULL", quoted |-> FALSE]
IniValues == [text : IniTexts, quoted : BOOLEAN] \cup {Erase}
NoJob == [at |-> "idle", name |-> <<NoText, NoText>>, value |-> Erase]

----------------------------------------------------------------------------
(* Lines of a file.                                                        *)

\* The first of some places in `lines`, or the one behind the last line.
FirstLine(lines, places) ==
  IF places = {} THEN Len(lines) + 1
  ELSE CHOOSE i \in places : \A j \in places : i <= j

LinesBehind(lines, from) == from + 1..Len(lines)

\* The header of the section, and the end of what follows it.
HeaderLine(lines, s) ==
  FirstLine(lines, {i \in DOMAIN lines : lines[i].kind = "section" /\ lines[i].name = s})
SectionEnd(lines, s) ==
  FirstLine(lines, {i \in LinesBehind(lines, HeaderLine(lines, s)) : lines[i].kind = "section"})

\* The lines of the setting in its section.
SettingLines(lines, name) ==
  {i \in HeaderLine(lines, name[1]) + 1..SectionEnd(lines, name[1]) - 1 :
     lines[i].kind = "entry" /\ lines[i].name = name[2]}

\* A setting stands in the first file once at most, but for a line that has
\* blanks in front of "=": erasing the first of two lines uncovers the other.
ASSUME IniAssumption ==
  /\ IniNames \subseteq STRING \X STRING /\ IniTexts \subseteq STRING
  /\ \A file \in IniStarts \ {NoIniFile} :
       /\ file \in Seq(IniLine)
       /\ \A n \in IniNames : \A i, j \in SettingLines(file, n) :
            file[i].padded \/ file[j].padded \/ i = j
  /\ MaxIniPuts \in Nat /\ MaxIniCrashes \in Nat

\* ini_get_keystring: comments are passed over, blanks before "=" and the
\* quotes around the value do not count. 0 when the setting is not there.
EntryLine(lines, name) ==
  LET i == FirstLine(lines, {j \in LinesBehind(lines, HeaderLine(lines, name[1])) :
                               lines[j].kind = "entry" /\ lines[j].name = name[2]})
  IN  IF i < SectionEnd(lines, name[1]) THEN i ELSE 0

\* ini_gets with no default.
ini_gets(lines, name) ==
  IF lines = NoIniFile THEN NoText
  ELSE LET i == EntryLine(lines, name) IN IF i = 0 THEN NoText ELSE lines[i].text

\* ini_write_key.
WrittenKey(name, value) ==
  IF value = Erase THEN <<>>
  ELSE << [kind |-> "entry", name |-> name[2], text |-> value.text,
           quoted |-> value.quoted, padded |-> FALSE] >>

\* ini_write_section, for a section that is new, and its key.
WrittenSection(name, value) ==
  IF value = Erase THEN <<>> ELSE <<SectionLine(name[1])>> \o WrittenKey(name, value)

\* The copy ini_puts makes: the key takes the place of the first line of
\* the section that has it right in front of "=", or goes to the end of the
\* section; a section that is not there goes to the end of the file.
LinesCopied(lines, name, value) ==
  LET head == HeaderLine(lines, name[1])
      i == FirstLine(lines, {j \in LinesBehind(lines, head) : lines[j].kind = "section" \/
             (lines[j].kind = "entry" /\ lines[j].name = name[2] /\ ~lines[j].padded)})
      rest == IF i <= Len(lines) /\ lines[i].kind = "entry" THEN i + 1 ELSE i
  IN  IF head > Len(lines) THEN lines \o WrittenSection(name, value)
      ELSE SubSeq(lines, 1, i - 1) \o WrittenKey(name, value)
             \o SubSeq(lines, rest, Len(lines))

\* ini_puts does nothing where the value is read back as it is written.
AlreadyThere(lines, name, value) ==
  /\ value # Erase /\ ~value.quoted
  /\ EntryLine(lines, name) # 0 /\ ini_gets(lines, name) = value.text

----------------------------------------------------------------------------
(* One write at a time, readers at any moment, and deaths.                 *)

IniInit ==
  /\ iniFile \in IniStarts /\ iniTwin = NoIniFile /\ iniJob = NoJob
  /\ iniGot = NoText /\ iniKnown = [n \in IniNames |-> ini_gets(iniFile, n)]
  /\ iniLost = FALSE /\ iniCrashes = 0 /\ iniPuts = 0

NowKnown == [iniKnown EXCEPT ![iniJob.name] =
               IF iniJob.value = Erase THEN NoText ELSE iniJob.value.text]

\* ini_puts up to where it opens a file to write: the twin, or the file
\* itself where there is none (and nothing to erase).
cwmp_conf_set(name, value) ==
  /\ iniJob = NoJob /\ iniPuts < MaxIniPuts
  /\ iniPuts' = iniPuts + 1
  /\ \/ /\ iniFile = NoIniFile /\ value # Erase
        /\ iniFile' = <<>>
        /\ iniJob' = [at |-> "create", name |-> name, value |-> value]
        /\ iniLost' = (iniLost \/ iniTwin # NoIniFile)
        /\ UNCHANGED iniTwin
     \/ /\ iniFile # NoIniFile /\ ~AlreadyThere(iniFile, name, value)
        /\ iniTwin' = <<>>
        /\ iniJob' = [at |-> "copy", name |-> name, value |-> value]
        /\ UNCHANGED <<iniFile, iniLost>>
     \/ /\ IF iniFile = NoIniFile THEN value = Erase ELSE AlreadyThere(iniFile, name, value)
        /\ UNCHANGED <<iniFile, iniTwin, iniJob, iniLost>>
  /\ UNCHANGED <<iniGot, iniKnown, iniCrashes>>

FileWritten ==
  /\ iniJob.at = "create"
  /\ iniFile' = WrittenSection(iniJob.name, iniJob.value)
  /\ iniKnown' = NowKnown /\ iniJob' = NoJob
  /\ UNCHANGED <<iniTwin, iniGot, iniLost, iniCrashes, iniPuts>>

TwinWritten ==
  /\ iniJob.at = "copy"
  /\ iniTwin' = LinesCopied(iniFile, iniJob.name, iniJob.value)
  /\ iniJob' = [iniJob EXCEPT !.at = "remove"]
  /\ UNCHANGED <<iniFile, iniGot, iniKnown, iniLost, iniCrashes, iniPuts>>

FileRemoved ==
  /\ iniJob.at = "remove"
  /\ iniFile' = NoIniFile /\ iniKnown' = NowKnown
  /\ iniJob' = [iniJob EXCEPT !.at = "rename"]
  /\ UNCHANGED <<iniTwin, iniGot, iniLost, iniCrashes, iniPuts>>

TwinRenamed ==
  /\ iniJob.at = "rename"
  /\ iniFile' = iniTwin /\ iniTwin' = NoIniFile /\ iniJob' = NoJob
  /\ UNCHANGED <<iniGot, iniKnown, iniLost, iniCrashes, iniPuts>>

\* cwmp_conf_get, cwmp_conf_pool_get: also from the thread of the connection
\* requests, while another one writes. A file that is open stays readable.
cwmp_conf_get(name) ==
  /\ iniGot' = ini_gets(iniFile, name)
  /\ UNCHANGED <<iniFile, iniTwin, iniJob, iniKnown, iniLost, iniCrashes, iniPuts>>

\* The process dies and is started again.
IniCrash ==
  /\ iniJob # NoJob /\ iniCrashes < MaxIniCrashes
  /\ iniJob' = NoJob /\ iniCrashes' = iniCrashes + 1
  /\ UNCHANGED <<iniFile, iniTwin, iniGot, iniKnown, iniLost, iniPuts>>

IniNext ==
  \/ \E n \in IniNames : \/ \E v \in IniValues : cwmp_conf_set(n, v)
                         \/ cwmp_conf_get(n)
  \/ FileWritten \/ TwinWritten \/ FileRemoved \/ TwinRenamed \/ IniCrash

IniSpec == IniInit /\ [][IniNext]_iniVars

----------------------------------------------------------------------------
(* Properties.                                                             *)

IniTypeOK ==
  /\ iniJob.at \in {"idle", "create", "copy", "remove", "rename"}
  /\ \A f \in {iniFile, iniTwin} \ {NoIniFile} : \A i \in DOMAIN f : f[i] \in IniLine
  /\ iniGot \in IniTexts \cup {NoText}
  /\ iniCrashes \in 0..MaxIniCrashes /\ iniPuts \in 0..MaxIniPuts

\* A line of the setting's section has it with blanks in front of "=": it is
\* found by a reader and not by a writer.
OutOfReach(lines, name) == \E i \in SettingLines(lines, name) : lines[i].padded

\* Whenever the process dies, every setting is in the file or, where there is
\* no file, in the twin, with the value last written, also those no write was
\* about; until a write finds no file and begins one. Without a death there
\* is no moment without a file but that between remove and rename.
IniKept ==
  /\ ~iniLost =>
       \A n \in IniNames :
         LET held == IF iniFile = NoIniFile THEN iniTwin ELSE iniFile
         IN  (held # NoIniFile => ~OutOfReach(held, n)) => ini_gets(held, n) = iniKnown[n]
  /\ iniFile = NoIniFile /\ iniCrashes = 0 =>
       iniJob.at = "rename" \/ \A n \in IniNames : iniKnown[n] = NoText
  /\ iniLost => iniCrashes > 0
=============================================================================
