------------------------------ MODULE Bypassed ------------------------------
(***************************************************************************)
(* The calls that libmmc.so declares behind                                *)
(* MMCSO_OFFLOAD_NOT_IMPLEMENTED_YET, which no build defines.  The library *)
(* has no code for them: the application's call enters the MPI library     *)
(* directly, in the calling thread.                                        *)
(*                                                                         *)
(* One record per block of declarations sorts its calls (without the       *)
(* prefix MPI_) by what they have to do with the operations and requests   *)
(* of the calls that are offloaded:                                        *)
(*                                                                         *)
(*   local         neither communicates nor names an operation's objects   *)
(*   communicates  sends, receives, synchronizes or accesses a window or   *)
(*                 file, in the order of the thread's other such calls     *)
(*   creates       makes an object that operations name                    *)
(*   derives       the same collectively, in the order of communication    *)
(*   frees         gives up an object that unfinished operations may name  *)
(*   closes        the same collectively, for an object nobody uses        *)
(*   starts        stores an MPI_Request of the MPI library                *)
(*   uses          takes MPI_Requests of the MPI library                   *)
(*   matches       stores an MPI_Message                                   *)
(*   receives      takes an MPI_Message                                    *)
(*                                                                         *)
(* Calls listed there and implemented elsewhere (Comm_dup, Comm_idup,      *)
(* Win_create, Win_fence, Finalize) are offloaded and not in the records;  *)
(* Abort ends the program.                                                 *)
(***************************************************************************)

Completion == [uses |-> {"Waitany", "Waitsome", "Testall", "Testany", "Testsome"},
               local |-> {"Test_cancelled"}]

Requests_ == [uses |-> {"Cancel", "Grequest_complete", "Request_free", "Request_get_status"},
              starts |-> {"Grequest_start"},
              local |-> {"Get_count", "Get_elements", "Get_elements_x", "Status_set_cancelled",
                         "Status_set_elements", "Status_set_elements_x"}]

Persistent == [starts |-> {"Bsend_init", "Recv_init", "Rsend_init", "Send_init", "Ssend_init"},
               uses |-> {"Start", "Startall"}]

PointToPoint == [communicates |-> {"Sendrecv", "Sendrecv_replace"}]

MatchedReceive == [receives |-> {"Mrecv"}]

Various ==
    [local |-> {"Add_error_class", "Add_error_code", "Add_error_string", "Alloc_mem",
                "Errhandler_free", "Error_class", "Error_string", "Close_port", "Finalized",
                "Free_mem", "Get_address", "Get_library_version", "Get_processor_name",
                "Get_version", "Initialized", "Is_thread_main", "Lookup_name",
                "Op_commutative", "Open_port", "Pack", "Pack_external", "Pack_external_size",
                "Pack_size", "Pcontrol", "Publish_name", "Reduce_local", "Register_datarep",
                "Unpack", "Unpack_external", "Unpublish_name", "Wtick", "Wtime"},
     communicates |-> {"Probe"},
     creates |-> {"Buffer_attach", "Op_create"},
     derives |-> {"Intercomm_create", "Intercomm_merge"},
     frees |-> {"Buffer_detach", "Op_free"},
     matches |-> {"Improbe", "Mprobe"}]

Communicators ==
    [local |-> {"Comm_call_errhandler", "Comm_compare", "Comm_create_errhandler",
                "Comm_create_keyval", "Comm_delete_attr", "Comm_free_keyval", "Comm_get_attr",
                "Comm_get_errhandler", "Comm_get_info", "Comm_get_name", "Comm_get_parent",
                "Comm_group", "Comm_rank", "Comm_remote_group", "Comm_remote_size",
                "Comm_set_attr", "Comm_set_errhandler", "Comm_set_name", "Comm_size",
                "Comm_test_inter"},
     communicates |-> {"Comm_set_info"},
     derives |-> {"Comm_accept", "Comm_connect", "Comm_create", "Comm_create_group",
                  "Comm_dup_with_info", "Comm_join", "Comm_spawn", "Comm_spawn_multiple",
                  "Comm_split", "Comm_split_type"},
     frees |-> {"Comm_free"},
     closes |-> {"Comm_disconnect"}]

Topologies ==
    [local |-> {"Cart_coords", "Cart_get", "Cart_rank", "Cart_shift", "Cartdim_get",
                "Dist_graph_neighbors", "Dist_graph_neighbors_count", "Dims_create",
                "Graph_get", "Graph_neighbors", "Graph_neighbors_count", "Graphdims_get",
                "Topo_test"},
     communicates |-> {"Cart_map", "Graph_map"},
     derives |-> {"Cart_create", "Cart_sub", "Dist_graph_create",
                  "Dist_graph_create_adjacent", "Graph_create"}]

Groups == [local |-> {"Group_compare", "Group_difference", "Group_excl", "Group_free",
                      "Group_incl", "Group_intersection", "Group_range_excl",
                      "Group_range_incl", "Group_rank", "Group_size",
                      "Group_translate_ranks", "Group_union"}]

Infos == [local |-> {"Info_create", "Info_delete", "Info_dup", "Info_free", "Info_get",
                     "Info_get_nkeys", "Info_get_nthkey", "Info_get_valuelen", "Info_set"}]

\* A request handle of MPI is all that Request_c2f can convert, too.
Conversions ==
    [local |-> {"Errhandler_c2f", "Errhandler_f2c", "Message_c2f", "Message_f2c", "Op_c2f",
                "Op_f2c", "Request_f2c", "Status_c2f", "Status_f2c", "File_c2f", "File_f2c",
                "Comm_c2f", "Comm_f2c", "Group_c2f", "Group_f2c", "Info_c2f", "Info_f2c",
                "Type_c2f", "Type_f2c", "Win_c2f", "Win_f2c"},
     uses |-> {"Request_c2f"}]

Types ==
    [local |-> {"Type_commit", "Type_create_keyval", "Type_delete_attr", "Type_free_keyval",
                "Type_get_attr", "Type_get_contents", "Type_get_envelope", "Type_get_extent",
                "Type_get_extent_x", "Type_get_name", "Type_get_true_extent",
                "Type_get_true_extent_x", "Type_match_size", "Type_set_attr",
                "Type_set_name", "Type_size", "Type_size_x"},
     creates |-> {"Type_contiguous", "Type_create_darray", "Type_create_f90_complex",
                  "Type_create_f90_integer", "Type_create_f90_real",
                  "Type_create_hindexed_block", "Type_create_hindexed",
                  "Type_create_hvector", "Type_create_indexed_block",
                  "Type_create_struct", "Type_create_subarray", "Type_create_resized",
                  "Type_dup", "Type_indexed", "Type_vector"},
     frees |-> {"Type_free"}]

OneSided ==
    [communicates |-> {"Compare_and_swap", "Fetch_and_op", "Get", "Get_accumulate", "Put"},
     starts |-> {"Raccumulate", "Rget", "Rget_accumulate", "Rput"}]

Windows ==
    [local |-> {"Win_attach", "Win_call_errhandler", "Win_create_errhandler",
                "Win_create_keyval", "Win_delete_attr", "Win_detach", "Win_free_keyval",
                "Win_get_attr", "Win_get_errhandler", "Win_get_group", "Win_get_info",
                "Win_get_name", "Win_set_attr", "Win_set_errhandler", "Win_set_name",
                "Win_shared_query"},
     communicates |-> {"Win_complete", "Win_flush", "Win_flush_all", "Win_flush_local",
                       "Win_flush_local_all", "Win_lock", "Win_lock_all", "Win_post",
                       "Win_set_info", "Win_start", "Win_sync", "Win_test", "Win_unlock",
                       "Win_unlock_all", "Win_wait"},
     derives |-> {"Win_allocate", "Win_allocate_shared", "Win_create_dynamic"},
     closes |-> {"Win_free"}]

\* mpi_file.cpp has bodies for these, in the shape of the offloaded calls, but
\* inside the block: none of them is compiled.
FilesAt == [starts |-> {"File_iread_at", "File_iwrite_at", "File_iread_at_all",
                        "File_iwrite_at_all"},
            communicates |-> {"File_read_at", "File_write_at", "File_read_at_all",
                              "File_write_at_all"}]

FilesPointer == [starts |-> {"File_iread", "File_iwrite", "File_iread_all",
                             "File_iwrite_all"},
                 communicates |-> {"File_read", "File_write", "File_read_all",
                                   "File_write_all"}]

FilesShared == [starts |-> {"File_iread_shared", "File_iwrite_shared"},
                communicates |-> {"File_read_shared", "File_write_shared"}]

Files ==
    [local |-> {"File_call_errhandler", "File_create_errhandler", "File_set_errhandler",
                "File_get_errhandler", "File_delete", "File_get_size", "File_get_group",
                "File_get_amode", "File_get_info", "File_get_view", "File_seek",
                "File_get_position", "File_get_byte_offset", "File_get_position_shared",
                "File_get_type_extent", "File_get_atomicity"},
     communicates |-> {"File_set_size", "File_preallocate", "File_set_info",
                       "File_set_view", "File_read_ordered", "File_write_ordered",
                       "File_seek_shared", "File_set_atomicity", "File_sync",
                       "File_read_at_all_begin", "File_read_at_all_end",
                       "File_write_at_all_begin", "File_write_at_all_end",
                       "File_read_all_begin", "File_read_all_end", "File_write_all_begin",
                       "File_write_all_end", "File_read_ordered_begin",
                       "File_read_ordered_end", "File_write_ordered_begin",
                       "File_write_ordered_end"},
     derives |-> {"File_open"},
     closes |-> {"File_close"}]

-----------------------------------------------------------------------------
Families == {Completion, Requests_, Persistent, PointToPoint, MatchedReceive, Various,
             Communicators, Topologies, Groups, Infos, Conversions, Types, OneSided,
             Windows, FilesAt, FilesPointer, FilesShared, Files}

Roles == UNION {DOMAIN f : f \in Families}

\* The calls with a role.
Calls(role) == UNION {f[role] : f \in {g \in Families : role \in DOMAIN g}}
=============================================================================
