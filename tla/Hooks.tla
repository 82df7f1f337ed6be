-------------------------------- MODULE Hooks --------------------------------
(***************************************************************************)
(* The query and mutation hooks of the web client                          *)
(* (src/apps/web/src/features/*/api/): what each query caches under which  *)
(* key, and which keys each mutation names when its answer arrives.        *)
(*                                                                         *)
(* A query returns some facts the server keeps.  Those of one event, one   *)
(* user and one ticket are told from each other only by their kind:        *)
(*   events, registrations, standing (statuses and places in the queue),   *)
(*   attendance, team, guests, bookmarks, uses (of tags and categories),   *)
(*   tags, categories, types, venues, departments, users, interests,       *)
(*   preferences, templates, attachments, answers, tickets, passes,        *)
(*   notices, models, roles, and the figures, which the server caches.     *)
(* A key that ends in an id is written without it, and apart from the same *)
(* key without an id: "event-organizers" lists users, "event-organizers/"  *)
(* the team of the event.                                                  *)
(***************************************************************************)

Query(key, facts) == [key |-> key, facts |-> facts]

\* What the call changes on the server, and the keys its onSuccess invalidates.
Mutation(changes, names) == [changes |-> changes, names |-> names]

-----------------------------------------------------------------------------
(* Events.                                                                 *)

useEvents == Query("events", {"events", "registrations"})
useMyOrganizedEvents == Query("my-organized-events", {"events", "registrations", "team"})
useEvent == Query("event", {"events", "registrations", "team"})
useEventTypes == Query("event-types", {"types"})
useVenues == Query("venues", {"venues"})
useEventOrganizers == Query("event-organizers/", {"team"})
useMyOrganizerInvitations == Query("my-organizer-invitations", {"team"})
useUserNames == Query("event-organizers", {"users"})  \* get-users.ts: useUsers
useGuestInvites == Query("event-guest-invites", {"guests"})
useRecommendations == Query("recommendations", {"models"})
useSimilarEvents == Query("similar-events", {"models"})

EventLists == {"events", "my-organized-events"}

useCreateEvent == Mutation({"events", "uses"}, EventLists)
useUpdateEvent == Mutation({"events", "uses"}, EventLists \cup {"event"})
useDeleteEvent == Mutation({"events", "uses", "team"}, EventLists)
useSubmitEvent == Mutation({"events"}, EventLists \cup {"event"})
useApproveEvent == Mutation({"events"}, EventLists \cup {"event"})
useRejectEvent == Mutation({"events"}, EventLists \cup {"event"})
useGoLiveEvent == Mutation({"events"}, {"events", "event"})
useArchiveEvent == Mutation({"events"}, EventLists \cup {"event", "archive"})
useInviteOrganizer == Mutation({"team"}, {"event-organizers/"})
useRemoveOrganizer == Mutation({"team"}, {"event-organizers/"})
useRespondToOrganizerInvitation ==
    Mutation({"team"}, {"my-organizer-invitations", "event-organizers", "event-organizers/"})
useInviteGuests == Mutation({"guests"}, {"event-guest-invites"})

-----------------------------------------------------------------------------
(* Registrations, attendance, bookmarks.                                   *)

useRegistrationStatus == Query("registration-status", {"standing"})
useMyRegistrations == Query("my-registrations", {"standing", "registrations", "events"})
useEventRegistrations == Query("event-registrations", {"standing"})
useAttendance == Query("attendance", {"attendance"})
useAttendanceStats == Query("attendance-stats", {"attendance", "standing"})
useGlobalAttendanceStats == Query("global-attendance-stats", {"attendance", "standing"})
useEventsParticipation == Query("events-participation", {"attendance", "standing", "events"})
useRecentGlobalAttendance == Query("recent-global-attendance", {"attendance"})
useBookmarks == Query("bookmarks", {"bookmarks", "events", "registrations"})
useBookmarkStatus == Query("bookmark-status", {"bookmarks"})

useRegistration ==
    Mutation({"standing", "registrations"},
             {"event", "events", "my-registrations", "registration-status"})

\* The next in the queue may be given the seat, by a new registration.
useCancelRegistration ==
    Mutation({"standing", "registrations"}, {"my-registrations", "events", "registration-status"})
useApproveRegistration == Mutation({"standing"}, {"event-registrations"})
useRejectRegistration == Mutation({"standing", "registrations"}, {"event-registrations"})
useCheckIn == Mutation({"attendance"}, {"attendance", "attendance-stats"})
useManualCheckIn ==
    Mutation({"attendance"}, {"attendance", "attendance-stats", "event-registrations"})
useToggleBookmark == Mutation({"bookmarks"}, {"bookmarks", "bookmark-status"})

-----------------------------------------------------------------------------
(* Catalogue.                                                              *)

useTags == Query("tags", {"tags", "uses"})
useCategories == Query("categories", {"categories", "uses"})
useDepartments == Query("departments", {"departments"})

useCreateTag == Mutation({"tags"}, {"tags"})
useDeleteTag == Mutation({"tags"}, {"tags"})
useCreateCategory == Mutation({"categories"}, {"categories"})
useDeleteCategory == Mutation({"categories"}, {"categories"})
useCreateEventType == Mutation({"types"}, {"event-types"})
useDeleteEventType == Mutation({"types"}, {"event-types"})
useCreateVenue == Mutation({"venues"}, {"venues"})
useCreateDepartment == Mutation({"departments"}, {"departments"})

-----------------------------------------------------------------------------
(* Users.  The preferred categories are cached under two keys.             *)

useUsers == Query("admin-users", {"users"})
useRoles == Query("roles", {"roles"})
useMyInterests == Query("my-interests", {"interests"})
useMyCategoryPreferences == Query("my-category-preferences", {"preferences"})
useUserPreferences == Query("user-category-preferences", {"preferences"})

useUpdateMyProfile == Mutation({"users"}, {"my-profile"})
useUpdateMyInterests == Mutation({"interests"}, {"my-interests"})
useUpdateMyCategoryPreferences == Mutation({"preferences"}, {"my-category-preferences"})
useSetUserPreferences == Mutation({"preferences"}, {"user-category-preferences"})

-----------------------------------------------------------------------------
(* Feedback, support, notifications.                                       *)

useFeedback == Query("admin-feedback", {"answers"})
useFeedbackForm == Query("feedback-form", {"attachments", "answers"})
useAllFeedbackResponses == Query("admin-feedback-responses", {"answers"})
useMyEventsFeedbackResponses == Query("organizer-feedback-responses", {"answers"})
useFeedbackTemplates == Query("feedback-templates", {"templates"})

useSubmitFeedback == Mutation({"answers"}, {})
useCreateTemplate == Mutation({"templates"}, {"feedback-templates"})
useUpdateTemplate == Mutation({"templates"}, {"feedback-templates"})
useDeleteTemplate == Mutation({"templates"}, {"feedback-templates"})
useAttachTemplate == Mutation({"attachments"}, {})

useTickets == Query("admin-support-tickets", {"tickets"})
useMyTickets == Query("my-support-tickets", {"tickets"})
useTicketDetails == Query("support-ticket", {"tickets"})
usePublicTicket == Query("public-support-ticket", {"tickets"})

TicketKeys == {"support-ticket", "admin-support-tickets", "my-support-tickets"}

useCreateTicket == Mutation({"tickets"}, {"admin-support-tickets"})
useReplyTicket == Mutation({"tickets"}, TicketKeys)
useUpdateStatus == Mutation({"tickets"}, TicketKeys)
usePublicReply == Mutation({"tickets"}, {"public-support-ticket"})

useNotifications == Query("notifications", {"notices"})
useUnreadCount == Query("notifications/unread-count", {"notices"})

NoticeKeys == {"notifications", "notifications/unread-count"}

useMarkAsRead == Mutation({"notices"}, NoticeKeys)
useMarkAllAsRead == Mutation({"notices"}, NoticeKeys)
useDeleteNotification == Mutation({"notices"}, NoticeKeys)

-----------------------------------------------------------------------------
(* Graduation, figures.                                                    *)

useGraduationGuests == Query("graduation-guests", {"passes"})
useDashboardStats == Query("dashboard-stats", {"figures"})
useRecentRegistrations == Query("recent-registrations", {"standing", "registrations"})
useArchive == Query("archive", {"events"})
useAdminTrends == Query("admin-trends", {"figures"})
useCategoryAnalytics == Query("category-analytics", {"figures"})
useDepartmentAnalytics == Query("department-analytics", {"figures"})
useTopEvents == Query("top-events", {"figures"})
useTopOrganizer == Query("top-organizer", {"figures"})
useMlHealth == Query("recommendation-health", {"models"})

addGuest == Mutation({"passes"}, {"graduation-guests"})
uploadGuests == Mutation({"passes"}, {"graduation-guests"})
resendPass == Mutation({"passes"}, {"graduation-guests"})

\* The refresh button: it changes nothing and names the figures of the page,
\* three of them by keys that no query has.
handleRefresh ==
    Mutation({}, {"recent-registrations", "dashboard-stats", "top-organizer", "top-events"})
==============================================================================
