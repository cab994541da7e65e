------------------------------ MODULE MCMailbox ------------------------------
(***************************************************************************)
(* One request of every caller, and one with the tags that none of them    *)
(* uses, an unsupported tag among them.  -2^30 is an address of the        *)
(* VideoCore's bus (0xC0000000), as v3d_mem_lock returns them.             *)
(***************************************************************************)
EXTENDS Mailbox

MCBus == -1073741824

MCOthers ==
  Asks("other", <<Add(TAG_GET_OVERSCAN, << >>), Add(TAG_RELEASE_BUFFER, << >>), Add(TAG_SET_OVERSCAN, <<1, 2, 3, 4>>),
                  Add(TAG_GET_CLOCKS, << >>), Add(TAG_GET_FIRMWARE_VERSION, << >>)>>,
       <<Get(TAG_GET_FIRMWARE_VERSION, {0}), Get(TAG_GET_CLOCKS, {0, 3}), Get(TAG_RELEASE_BUFFER, {})>>)

MCRequests ==
  {turn_usb(1), print_usb_power_state, get_mem_size, get_console_width_height_depth,
   get_console_frame_buffer(640, 480, 16), max_clock_rate, set_max_speed(300), init_v3d, v3d_mem_alloc(64, 16, 12),
   v3d_mem_free(7), v3d_mem_lock(7), v3d_mem_unlock(7), v3d_execute_code(MCBus, <<1, 2, 3, 4, MCBus, 6>>),
   v3d_execute_qpu(12, MCBus, 1, 100), MCOthers}
==============================================================================
