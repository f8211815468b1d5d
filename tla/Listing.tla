------------------------------ MODULE Listing ------------------------------
(***************************************************************************)
(* The listing kept beside the passes of asm_assemble (option -l): one row *)
(* per instruction or directive that emits bytes.  A row is opened before  *)
(* the encoder is called, filled by every emit_byte, closed behind it, and *)
(* dropped again when nothing was emitted.  The text passes are repeated,  *)
(* so the rows are too; asm_write_listing prints what is left at the end.  *)
(*                                                                         *)
(* Assembler does not read the listing: its steps are conjoined here with  *)
(* what they do to the rows.  A row keeps of its bytes their number and    *)
(* the displacement they showed when they were emitted.                    *)
(***************************************************************************)
EXTENDS Assembler

VARIABLE listing        \* listing_entries[0 .. listing_count-1]

lvars == <<vars, listing>>

RowBytes == 16          \* sizeof(entry->bytes)

Row == [line : Nat, address : Int, byte_count : 1 .. RowBytes, disp : Int]

(* listing_emit_byte, once per byte: what does not fit is not shown.       *)
listing_emit_byte(k) == Lesser(k, RowBytes)

(* The row of the current instruction after it has emitted k bytes.        *)
listing_start_instruction(k) ==
    [line |-> i, address |-> current_address, byte_count |-> listing_emit_byte(k),
     disp |-> IF pc = "encode" /\ HasRef(CurInst) THEN RefAt(CurInst, current_address).disp ELSE 0]

(* The same for the rows of a failed encoding: both paths close the row.   *)
listing_end_instruction(k) ==
    listing' = IF k = 0 THEN listing ELSE Append(listing, listing_start_instruction(k))

(* Mutant: a text pass adds its rows to those of the pass before.          *)
ResetListing_Keeps == UNCHANGED listing

ResetListing == listing' = <<>>

ListText ==
    /\ EncodeMachine \/ EncodeDirective \/ EncodeRejected
    /\ listing_end_instruction(text_size' - text_size)

ListData ==
    /\ DataEncode
    /\ listing_end_instruction(data_size' - data_size)

Unlisted ==
    \/ EstimateText \/ EndEstimate \/ LabelPass \/ EndLabelPass
    \/ ResolveEqu \/ EndEqu \/ Relax \/ EndRelax
    \/ TextPass \/ MarkGlobal \/ DeclareExtern \/ SkipLabelOnly \/ EndTextPass
    \/ ApplyAttribute \/ EndAttributes \/ DataPass \/ EndDataPass
    \/ ResolveFixup \/ EndFixups

ListingInit == Init /\ listing = <<>>

ListingPasses ==
    \/ StartTextPass /\ ResetListing
    \/ ListText \/ ListData
    \/ Unlisted /\ UNCHANGED listing

ListingNext == ListingPasses \/ (Finished /\ UNCHANGED listing)

ListingSpec == ListingInit /\ [][ListingNext]_lvars

(* The same sequential function as in Assembler.                           *)
ListingFairSpec == ListingSpec /\ WF_lvars(ListingPasses)

-----------------------------------------------------------------------------
(***************************************************************************)
(* Properties.                                                             *)
(***************************************************************************)

(* The address behind row r: the next row, or the end of the image.        *)
RowEnd(r) == IF r < Len(listing) THEN listing[r + 1].address
                                 ELSE BaseAddress + text_size + data_size

(* In the finished listing the rows are those of one pass over the text    *)
(* and one over the data and describe the whole image: they begin at the   *)
(* base address, follow each other without gap or overlap, and a row that  *)
(* is not full shows every byte up to the next (asm_assemble forgets the   *)
(* rows of the earlier passes, whose layout was another).  A row and the   *)
(* symbol table below agree on the address of its label, and a short       *)
(* branch is shown with the displacement in the image; fields with a fixup *)
(* are not, for they are patched after the row was taken.                  *)
ListingMatchesImage ==
    pc = "done" =>
        /\ listing # <<>> => listing[1].address = BaseAddress
        /\ listing = <<>> => text_size + data_size = 0
        /\ \A r \in DOMAIN listing :
            /\ IF listing[r].byte_count < RowBytes
                 THEN RowEnd(r) = listing[r].address + listing[r].byte_count
                 ELSE RowEnd(r) >= listing[r].address + RowBytes
            /\ \A name \in DOMAIN hash :
                  DefinedOnce(name, listing[r].line) =>
                      hash[name].address = listing[r].address
            /\ \A k \in DOMAIN refs :
                  (refs[k].kind = "short" /\ refs[k].loc = listing[r].address + 1) =>
                      listing[r].disp = refs[k].disp
=============================================================================
