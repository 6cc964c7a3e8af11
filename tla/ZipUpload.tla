------------------------------ MODULE ZipUpload -----------------------------
(***************************************************************************)
(* Selections of several files or of folders, which the upload page        *)
(* compresses into one archive (admin_ui_zip.js).  A path is a record of   *)
(* its folders, its name without extension and its extension; the suffix   *)
(* _1 of a name is a further element.  The name of the archive is a        *)
(* sequence of symbols, of which one may stand for several letters.        *)
(***************************************************************************)
EXTENDS Integers, Sequences, SequencesExt, FiniteSets

CONSTANTS
    Selections,   \* what a user drops, or selects in the file dialog
    Contents,     \* Contents[s]: its entries: files, and folders with entries
    Entries,      \* all entries, at any depth
    Typed,        \* names that users type into the dialog
    batchSize,    \* entries that readEntries returns at most, 100 in Chromium
    ZIP_FILENAME_MAX_BYTES,
    ZIP_MAX_TOTAL_SIZE

ASSUME EntriesAssumption ==
    /\ \A s \in Selections : Contents[s] \in Seq(Entries)
    /\ \A entry \in Entries : ~entry.isFile => entry.children \in Seq(Entries)
    /\ batchSize \in Nat \ {0}

VARIABLES
    selection,    \* selection[s]: what has become of s
    items,        \* items[s]: what zipCollectItems has found
    archive,      \* archive[s]: its name and the items that it contains
    modal,        \* the dialog that asks for the name
    isChoosingZipName,
    isCompressing

zipVars == <<selection, items, archive, modal, isChoosingZipName, isCompressing>>

-----------------------------------------------------------------------------
(* Names: "." and " " are themselves, "zip" the three letters, "wide" a      *)
(* letter of two bytes, "bad" the replacement character, "ctrl" a control    *)
(* character; "/" and "_" are themselves, and "x" is any other letter.       *)
Bytes(symbol) == IF symbol \in {"zip", "bad"} THEN 3 ELSE IF symbol = "wide" THEN 2 ELSE 1
zipUtf8ByteLength(name) == FoldLeft(LAMBDA n, symbol : n + Bytes(symbol), 0, name)

ZIP_EXTENSION == <<".", "zip">>
zipHasZipExtension(name) == IsSuffix(ZIP_EXTENSION, name)
generatedName == <<"x">> \o ZIP_EXTENSION

TrimLeft(name, symbol) ==
    LET first == SelectInSeq(name, LAMBDA other : other # symbol)
    IN  IF first = 0 THEN <<>> ELSE SubSeq(name, first, Len(name))
zipTrimGoSpace(name) == Reverse(TrimLeft(Reverse(TrimLeft(name, " ")), " "))

(* The longest prefix that fits *)
zipLimitUtf8Bytes(name, maxBytes) ==
    LET fits == {n \in 0..Len(name) : zipUtf8ByteLength(SubSeq(name, 1, n)) <= maxBytes}
    IN  SubSeq(name, 1, CHOOSE n \in fits : \A m \in fits : m <= n)

(* The first bytes of a name; what is left of a cut letter is replaced. *)
Cut(name, maxBytes) ==
    LET whole == zipLimitUtf8Bytes(name, maxBytes)
        next == name[Len(whole) + 1]
        left == maxBytes - zipUtf8ByteLength(whole)
    IN  whole \o (IF left = 0 THEN <<>> ELSE IF next = "zip" THEN [i \in 1..left |-> "x"]
                  ELSE <<"bad">>)

(* Also helper.SanitiseFilename of the server *)
zipSanitiseFilename(name) ==
    LET current == IF zipUtf8ByteLength(name) > ZIP_FILENAME_MAX_BYTES
                   THEN Cut(name, ZIP_FILENAME_MAX_BYTES) \o <<".", ".", ".">> ELSE name
        printable == SelectSeq(current, LAMBDA symbol : symbol # "ctrl")
        cleaned == [i \in DOMAIN printable |-> IF printable[i] = "/" THEN "_" ELSE printable[i]]
    IN  zipTrimGoSpace(TrimLeft(cleaned, "."))

zipArchiveStem(name) ==
    LET stem == IF IsSuffix(<<".", ".", ".">>, name) THEN SubSeq(name, 1, Len(name) - 3) ELSE name
    IN  IF zipHasZipExtension(stem) THEN SubSeq(stem, 1, Len(stem) - 2) ELSE stem

Acceptable(name) ==
    zipHasZipExtension(name) /\ zipUtf8ByteLength(name) <= ZIP_FILENAME_MAX_BYTES

zipResolveArchiveName(rawName) ==
    LET trimmed == zipTrimGoSpace(rawName)
        sanitised == zipSanitiseFilename(
            IF zipHasZipExtension(trimmed) THEN trimmed ELSE trimmed \o ZIP_EXTENSION)
        stem == zipTrimGoSpace(zipLimitUtf8Bytes(zipArchiveStem(sanitised), ZIP_FILENAME_MAX_BYTES - 4))
        rebuilt == IF stem = <<>> THEN <<>> ELSE zipSanitiseFilename(stem \o ZIP_EXTENSION)
    IN  IF trimmed = <<>> THEN generatedName
        ELSE IF Acceptable(sanitised) THEN sanitised
        ELSE IF Acceptable(rebuilt) THEN rebuilt ELSE generatedName

-----------------------------------------------------------------------------
(* readEntries is called until it returns nothing. *)
zipReadAllDirectoryEntries(children) ==
    LET readEntries(n) == SubSeq(children, n + 1, Min({n + batchSize, Len(children)}))
        readBatch[n \in Nat] == IF readEntries(n) = <<>> THEN <<>>
                                ELSE readEntries(n) \o readBatch[n + batchSize]
    IN  readBatch[0]

(* An empty folder is an item without a name. *)
Item(dir, entry) == [dir |-> dir, name |-> entry.name, ext |-> entry.ext, entry |-> entry]
zipWalkEntry[entry \in Entries, parent \in Seq(Seq(STRING))] ==
    LET dir == Append(parent, entry.name)
        found == zipReadAllDirectoryEntries(entry.children)
    IN  IF entry.isFile THEN <<Item(parent, entry)>>
        ELSE IF found = <<>> THEN <<[Item(dir, entry) EXCEPT !.name = <<"">>, !.ext = ""]>>
        ELSE FlattenSeq([i \in DOMAIN found |-> zipWalkEntry[found[i], dir]])

zipCollectItems(entries) == FlattenSeq([i \in DOMAIN entries |-> zipWalkEntry[entries[i], <<>>]])

Path(item) == <<item.dir, item.name, item.ext>>
Used(done) == {Path(item) : item \in ToSet(done)}

(* Mutant of WithSuffix: the suffix is not looked for among the used paths. *)
AlwaysOne(item, done) == [item EXCEPT !.name = Append(@, 1)]

WithSuffix(item, done) ==
    LET renamed(n) == [item EXCEPT !.name = Append(@, n)]
        free == {n \in 1..Len(done) + 1 : Path(renamed(n)) \notin Used(done)}
    IN  renamed(CHOOSE n \in free : \A m \in free : n <= m)

zipDeduplicateNames(found) ==
    FoldLeft(LAMBDA done, item :
                Append(done, IF Path(item) \in Used(done) THEN WithSuffix(item, done) ELSE item),
             <<>>, found)

zipGetTotalSize(found) ==
    FoldLeft(LAMBDA n, item : IF item.entry.isFile THEN n + item.entry.size ELSE n, 0, found)

(* JSZip keeps the last entry of a path. *)
zipCreateArchive(found) ==
    {found[i] : i \in {j \in DOMAIN found :
        \A k \in j + 1..Len(found) : Path(found[k]) # Path(found[j])}}

-----------------------------------------------------------------------------
NoArchive == [name |-> <<>>, content |-> {}]

ZipTypeOK ==
    /\ selection \in [Selections -> {"none", "plain", "reading", "asking", "compressing",
                                     "uploaded", "refused", "dropped", "error"}]
    /\ \A s \in Selections : items[s] # <<>> => selection[s] \in
          {"asking", "compressing", "uploaded", "dropped", "refused", "error"}
    /\ modal \in {"hidden", "shown", "hiding"}
    /\ isChoosingZipName \in BOOLEAN /\ isCompressing \in BOOLEAN

ZipInit ==
    /\ selection = [s \in Selections |-> "none"]
    /\ items = [s \in Selections |-> <<>>]
    /\ archive = [s \in Selections |-> NoArchive]
    /\ modal = "hidden"
    /\ isChoosingZipName = FALSE /\ isCompressing = FALSE

Becomes(s, state) == selection' = [selection EXCEPT ![s] = state]
Asking == {s \in Selections : selection[s] = "asking"}

NeedsZip(s) == Len(Contents[s]) > 1 \/ \E entry \in ToSet(Contents[s]) : ~entry.isFile

(* zipOnDrop, zipOnFileInputChange: while a name is chosen the selection is  *)
(* thrown away, while an archive is made it goes to Dropzone as it is.       *)
zipOnDrop(s) ==
    /\ selection[s] = "none"
    /\ \/ isChoosingZipName /\ Becomes(s, "dropped")
       \/ ~isChoosingZipName /\ (isCompressing \/ ~NeedsZip(s)) /\ Becomes(s, "plain")
       \/ ~isChoosingZipName /\ ~isCompressing /\ NeedsZip(s) /\ Becomes(s, "reading")
    /\ UNCHANGED <<items, archive, modal, isChoosingZipName, isCompressing>>

(* The items have been read: zipAndUpload until the dialog.  A dialog that   *)
(* is shown or about to go away is not shown again.                          *)
zipAskArchiveName(s) ==
    LET found == zipDeduplicateNames(zipCollectItems(Contents[s]))
    IN  /\ selection[s] = "reading"
        /\ items' = [items EXCEPT ![s] = found]
        /\ IF zipGetTotalSize(found) > ZIP_MAX_TOTAL_SIZE
           THEN Becomes(s, "refused") /\ UNCHANGED <<modal, isChoosingZipName>>
           ELSE /\ Becomes(s, "asking")
                /\ isChoosingZipName' = TRUE
                /\ modal' = IF modal = "hidden" THEN "shown" ELSE modal
        /\ UNCHANGED <<archive, isCompressing>>

zipShowGenericError(s) ==
    /\ selection[s] = "reading" /\ Becomes(s, "error")
    /\ UNCHANGED <<items, archive, modal, isChoosingZipName, isCompressing>>

(* The button confirms every selection that waits for a name. *)
onConfirm(rawName) ==
    /\ modal = "shown"
    /\ modal' = "hiding"
    /\ selection' = [s \in Selections |-> IF s \in Asking THEN "compressing" ELSE selection[s]]
    /\ archive' = [s \in Selections |-> IF s \in Asking
                     THEN [name |-> zipResolveArchiveName(rawName), content |-> {}] ELSE archive[s]]
    /\ isChoosingZipName' = FALSE /\ isCompressing' = TRUE
    /\ UNCHANGED items

Dismiss ==
    /\ modal = "shown" /\ modal' = "hiding"
    /\ UNCHANGED <<selection, items, archive, isChoosingZipName, isCompressing>>

(* hidden.bs.modal, which also reaches a selection that has asked meanwhile *)
onHidden ==
    /\ modal = "hiding" /\ modal' = "hidden"
    /\ selection' = [s \in Selections |-> IF s \in Asking THEN "dropped" ELSE selection[s]]
    /\ isChoosingZipName' = FALSE
    /\ UNCHANGED <<items, archive, isCompressing>>

(* The archive is made, and goes to Dropzone; or that fails.  isCompressing  *)
(* is cleared although another archive may still be in the making.           *)
zipAndUpload(s) ==
    /\ selection[s] = "compressing"
    /\ \/ /\ Becomes(s, "uploaded")
          /\ archive' = [archive EXCEPT ![s].content = zipCreateArchive(items[s])]
       \/ Becomes(s, "error") /\ UNCHANGED archive
    /\ isCompressing' = FALSE
    /\ UNCHANGED <<items, modal, isChoosingZipName>>

ZipStep ==
    \/ \E s \in Selections : zipAskArchiveName(s) \/ zipShowGenericError(s) \/ zipAndUpload(s)
    \/ \E rawName \in Typed : onConfirm(rawName)
    \/ Dismiss \/ onHidden

-----------------------------------------------------------------------------
(* The files and the empty folders below the given entries, with the folder  *)
(* each of them is in                                                        *)
Contained[entries \in Seq(Entries), dir \in Seq(Seq(STRING))] ==
    UNION {IF entry.isFile THEN {<<dir, entry>>}
           ELSE IF entry.children = <<>> THEN {<<Append(dir, entry.name), entry>>}
           ELSE Contained[entry.children, Append(dir, entry.name)] : entry \in ToSet(entries)}

(* Whatever is dropped together, even under equal names, is in the archive,  *)
(* every item once and in its folder.  The server keeps the name that the    *)
(* dialog has settled on, unless it begins with a dot, and it ends with      *)
(* .zip; the comment at zipResolveArchiveName does not know the exception.   *)
ArchiveWhole ==
    /\ \A s \in Selections : selection[s] = "uploaded" =>
          LET content == archive[s].content
          IN  /\ {<<item.dir, item.entry>> : item \in content} = Contained[Contents[s], <<>>]
              /\ Cardinality(content) = Len(items[s])
    /\ \A s \in Selections : archive[s].name # <<>> =>
          LET name == archive[s].name
          IN  Acceptable(name) /\ (Head(name) # "." => zipSanitiseFilename(name) = name)
=============================================================================
