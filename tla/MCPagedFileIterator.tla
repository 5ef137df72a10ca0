------------------------ MODULE MCPagedFileIterator ------------------------
(* Small instances of PagedFileIterator for TLC.                           *)
EXTENDS PagedFileIterator, MCPagedFile

(* The pages a scan has handed out are not looked at again, only which.    *)
VisibleScan ==
  <<Visible, IF scan = NoScan THEN scan
             ELSE [scan EXCEPT !.got = [i \in DOMAIN @ |-> @[i].pnum]]>>
=============================================================================
