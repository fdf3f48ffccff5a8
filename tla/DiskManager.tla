----------------------------- MODULE DiskManager -----------------------------
(***************************************************************************)
(* The file of disk_manager.h: an info page and frames of one page each.   *)
(* Its state is a record; the operations are operators on it.  A page is a *)
(* pair of its first word and the rest: a deallocated page holds the next  *)
(* free page in its first word.  The length of the file counts half pages: *)
(* 2 * n are n whole pages, 2 * n + 1 are n pages and the first word of    *)
(* one more.                                                               *)
(***************************************************************************)
EXTENDS Integers
Sets == INSTANCE FiniteSetsExt

CONSTANTS MaxPages, Words   \* bounds: pages of the file, and words written

INVALID_PAGE_ID == -1

PageIds == 0 .. MaxPages - 1
Zeros == <<0, 0>>
Initialised == <<1, 1>>   \* a page whose owner has just set it up
Contents == {<<word, word>> : word \in Words \cup {0}}

MaxOf(a, b) == IF a > b THEN a ELSE b

(* A file that was just created: size_ 0, an empty free list, and the info *)
(* page in the file.                                                       *)
NewDisk ==
  [size |-> 0, free_head |-> INVALID_PAGE_ID, info |-> 0,
   pages |-> [p \in PageIds |-> Zeros], length |-> 0, failed |-> FALSE]

(* Writing behind the end of the file fills the gap with zeros.  A stream  *)
(* that has failed does nothing any more.                                  *)
WriteFrame(disk, page, data) ==
  IF disk.failed THEN disk
  ELSE [disk EXCEPT !.pages[page] = data,
                    !.length = MaxOf(@, 2 * page + 2)]

(* Several pages one after the other: data has the contents of each.       *)
WriteFrames(disk, data) ==
  IF disk.failed THEN disk
  ELSE [disk EXCEPT
          !.pages = [p \in PageIds |-> IF p \in DOMAIN data THEN data[p] ELSE @[p]],
          !.length = Sets!Max({@} \cup {2 * p + 2 : p \in DOMAIN data})]

WholePage(disk, page) == 2 * page + 2 <= disk.length

(* What ReadFrame leaves in a buffer of zeros: the whole page, or what of  *)
(* it there is.                                                            *)
DataRead(disk, page) ==
  CASE disk.failed \/ 2 * page >= disk.length -> Zeros
    [] ~disk.failed /\ WholePage(disk, page) -> disk.pages[page]
    [] OTHER -> <<disk.pages[page][1], 0>>

(* Reading behind the end of the file sets failbit, which nobody clears.   *)
ReadFrame(disk, page) ==
  [disk EXCEPT !.failed = @ \/ ~WholePage(disk, page)]

(* The page AllocateFrame hands out: the first free one, or a new one.     *)
NextPage(disk) ==
  IF disk.free_head = INVALID_PAGE_ID THEN disk.size ELSE disk.free_head

(* Mutant: the page stays on the free list.                                *)
AllocateFrameKeepingHead(disk) ==
  IF disk.free_head = INVALID_PAGE_ID THEN [disk EXCEPT !.size = @ + 1]
  ELSE disk

(* The free list is read from the file; its pages all have a first word.   *)
AllocateFrame(disk) ==
  IF disk.free_head = INVALID_PAGE_ID THEN [disk EXCEPT !.size = @ + 1]
  ELSE [disk EXCEPT
          !.free_head = IF disk.failed THEN INVALID_PAGE_ID
                        ELSE disk.pages[disk.free_head][1]]

(* Only the first word of the page is written.                             *)
DeallocateFrame(disk, page) ==
  LET freed == [disk EXCEPT !.free_head = page]
  IN  IF disk.failed THEN freed
      ELSE [freed EXCEPT !.pages[page] = <<disk.free_head, @[2]>>,
                         !.length = MaxOf(@, 2 * page + 1)]

(* The info page, with the head of the free list, is written at shutdown.  *)
ShutDown(disk) ==
  IF disk.failed THEN disk ELSE [disk EXCEPT !.info = disk.free_head]

(* A file opened again: size_ is the number of whole pages in it.          *)
Opened(disk) ==
  [disk EXCEPT !.free_head = disk.info, !.size = disk.length \div 2,
               !.failed = FALSE]

=============================================================================
