----------------------------- MODULE MCRequestForm -----------------------------
(* The tools of workflow-definitions/, each cut to the choices that differ, on *)
(* their own, with a tool that has quality levels, and with files the loader   *)
(* must refuse.                                                                *)
EXTENDS RequestForm

MCNames == {"none", "extend-video", "image-to-video", "video-to-video", "music", "music-video",
            "plain", "upscale", "source_video", "source_image", "source_audio",
            "reference_image", "identity_image", "5s", "10s", "1m", "16:9", "fast", "fine",
            "standard", "director", "auto", "german", "English", "Urdu"}

MCSeconds == [d \in {"5s", "10s", "1m"} |-> IF d = "5s" THEN 5 ELSE IF d = "10s" THEN 10 ELSE 60]
MCMinutes == {"1m"}
MCPrompts == {[words |-> 1, pad |-> 1], [words |-> 3, pad |-> 0]}

Input(role, kind, required) == [role |-> role, kind |-> kind, required |-> required]

Plain == [id |-> "plain", required |-> TRUE, max_length |-> 3, inputs |-> <<>>,
          duration_mode |-> "fixed", supported_durations |-> <<"5s">>,
          supported_aspect_ratios |-> <<"16:9">>, supported_quality_levels |-> <<>>,
          quality |-> FALSE, lyrics |-> FALSE, prompt_modes |-> FALSE, seed |-> FALSE,
          extend |-> TRUE, output_type |-> "video"]

ImageToVideo == [Plain EXCEPT !.id = "image-to-video", !.prompt_modes = TRUE, !.max_length = 2,
                              !.supported_durations = <<"10s">>,
                              !.inputs = <<Input("source_image", "image", TRUE)>>]
VideoToVideo == [Plain EXCEPT !.id = "video-to-video", !.duration_mode = "source",
                              !.supported_durations = <<>>,
                              !.inputs = <<Input("source_video", "video", TRUE),
                                           Input("reference_image", "image", FALSE)>>]
ExtendVideo == [Plain EXCEPT !.id = "extend-video", !.supported_durations = <<"5s", "10s">>,
                             !.inputs = <<Input("source_video", "video", TRUE)>>]
Music == [Plain EXCEPT !.id = "music", !.max_length = 2, !.duration_mode = "minutes", !.lyrics = TRUE,
                       !.supported_durations = <<"1m">>, !.supported_aspect_ratios = <<>>,
                       !.extend = FALSE, !.output_type = "audio"]
MusicVideo == [Plain EXCEPT !.id = "music-video", !.max_length = 2, !.duration_mode = "source", !.extend = FALSE,
                            !.supported_durations = <<>>,
                            !.inputs = <<Input("source_audio", "audio", TRUE)>>]
Upscale == [Plain EXCEPT !.id = "upscale", !.required = FALSE, !.quality = TRUE, !.seed = TRUE,
                         !.supported_quality_levels = <<"fast", "fine">>,
                         !.inputs = <<Input("source_video", "video", TRUE)>>]
Unlevelled == [Upscale EXCEPT !.quality = FALSE]

MCCatalogues == {{ImageToVideo, ExtendVideo}, {Music, VideoToVideo}, {Music, MusicVideo},
                 {ImageToVideo, Upscale}, {ImageToVideo, Unlevelled}}

\* Three jobs where the third can continue the second, which continues the first.
MCMaxJobs == [c \in MCCatalogues |-> IF ExtendVideo \in c THEN 3 ELSE 2]
=============================================================================
