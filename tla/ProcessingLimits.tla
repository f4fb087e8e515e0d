-------------------------- MODULE ProcessingLimits --------------------------
(* The limits typed core operations enforce, and the results they return. *)

CONSTANTS
    MaxElements,      \* ProcessingLimits::max_elements
    MaxSheetItems,    \* max_sheet_items
    MaxSheetSlots,    \* max_sheet_slots
    MaxPages,         \* max_pages
    MaxOutputBytes,   \* max_output_bytes, an element of a document being one byte
    MaxCanvasPixels,  \* max_canvas_pixels
    MaxTotalPixels,   \* max_total_pixels
    MaxCopies,        \* max_copies
    MaxPlanActions,   \* max_plan_actions
    MaxPlanBytes      \* max_plan_bytes

Ok(v) == [ok |-> TRUE, value |-> v]
Err(e) == [ok |-> FALSE, error |-> e]
=============================================================================
