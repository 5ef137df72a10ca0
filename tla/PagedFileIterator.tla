------------------------- MODULE PagedFileIterator -------------------------
(***************************************************************************)
(* psudb::PagedFileIterator (psu-io/PagedFileIterator.h): a scan of a      *)
(* PagedFile, page by page through read_page().  The object is used on     *)
(* while the scan runs: pages are written and allocated, the file is       *)
(* renamed or removed between two calls of next().                         *)
(***************************************************************************)
EXTENDS PagedFile

VARIABLE scan   (* the iterator, and the history of what it has returned   *)

NoScan == [state |-> "none"]
Running == scan.state = "running"
On(h)  == Running /\ scan.h = h

ScanInit == Init /\ scan = NoScan

(* start_scan(): no end page means the last page at this moment.           *)
EndPage(o, end) == IF end = None THEN PageCount(o) ELSE end

StartScan(h, start, end) ==
  LET o == obj[h]
  IN  /\ scan = NoScan /\ o.live
      /\ CheckPnum(o, start) /\ CheckPnum(o, EndPage(o, end))
      /\ scan' = [state |-> "running", h |-> h, start |-> start, end |-> end,
                  held |-> Len(data[file[h]]) \div PageUnits - 1,
                  current_pnum |-> start - 1, stop_pnum |-> EndPage(o, end),
                  got |-> <<>>, failed |-> FALSE]
      /\ UNCHANGED vars

(* next(): the page after the current one, while that is before the stop;  *)
(* FALSE both at the end and when a read fails, and the loop of a caller   *)
(* stops there.                                                            *)
BeforeStopLate == scan.current_pnum <= scan.stop_pnum
BeforeStop == scan.current_pnum < scan.stop_pnum

NextPageBehind ==
  LET pnum == scan.current_pnum + 1
  IN  /\ Running /\ BeforeStop
      /\ ReadPages(scan.h, scan.current_pnum, 1)
      /\ scan' = [scan EXCEPT !.current_pnum = pnum,
                              !.got = Append(@, [pnum |-> pnum, page |-> ret'.buffer])]
NextPage ==
  LET pnum == scan.current_pnum + 1
  IN  /\ Running /\ BeforeStop
      /\ ReadPages(scan.h, pnum, 1)
      /\ scan' = [scan EXCEPT !.current_pnum = pnum,
                              !.got = Append(@, [pnum |-> pnum, page |-> ret'.buffer])]

NextFails ==
  /\ Running /\ BeforeStop
  /\ ReadFails(scan.h)
  /\ scan' = [scan EXCEPT !.current_pnum = @ + 1, !.state = "ended", !.failed = TRUE]

NextEnds ==
  /\ Running /\ ~BeforeStop
  /\ scan' = [scan EXCEPT !.state = "ended"]
  /\ UNCHANGED vars

DropScan == scan # NoScan /\ scan' = NoScan /\ UNCHANGED vars

(* The object is not destroyed under its iterator.                         *)
FileStep == Next /\ UNCHANGED scan /\ \A h \in Handle : On(h) => obj'[h].live

ScanNext ==
  \/ \E h \in Handle, start, end \in Pnum : StartScan(h, start, end)
  \/ NextPage
  \/ NextFails
  \/ NextEnds
  \/ DropScan
  \/ FileStep

ScanSpec == ScanInit /\ [][ScanNext]_<<vars, scan>>
-----------------------------------------------------------------------------
(* A scan whose reads all succeed returns every page asked for, once and   *)
(* in order: up to the end page, or to the last page the file held when    *)
(* the scan started, whatever has been allocated since.                    *)
ScanComplete ==
  scan.state = "ended" /\ ~scan.failed =>
    LET last == IF scan.end = None THEN scan.held ELSE scan.end
    IN  /\ \A i \in DOMAIN scan.got : scan.got[i].pnum = scan.start + i - 1
        /\ Len(scan.got) = IF last < scan.start THEN 0 ELSE last - scan.start + 1

(* next() hands out the page as it is in the file at that moment.          *)
ScanCurrent ==
  [][scan # NoScan /\ scan' # NoScan /\ Len(scan'.got) > Len(scan.got) =>
       LET last == Last(scan'.got)
       IN  last.page = Units(file[scan.h], last.pnum * PageUnits, PageUnits)]_<<vars, scan>>
=============================================================================
