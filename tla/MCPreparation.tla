---------------------------- MODULE MCPreparation ----------------------------
EXTENDS Preparation

Setting(version, model, revision, setting, withOcr) ==
    [version |-> version, model |-> model, revision |-> revision, setting |-> setting,
     ocr |-> withOcr]

\* The second differs by everything but the version and the model, the third by its version.
MCConfigs == {Setting(1, 1, 0, 1, TRUE), Setting(1, 1, 1, 2, TRUE), Setting(2, 1, 0, 1, FALSE)}
MCVideoOf == <<<<1, 2>>, <<1, 1>>>>
MCPlans ==
    {[stages |-> {"caption"}, jobs |-> 3, changes |-> {"settings", "frames"}],
     [stages |-> {"caption"}, jobs |-> 2, changes |-> {"frames", "models", "datasets"}],
     [stages |-> {"ocr"}, jobs |-> 3, changes |-> {"settings", "frames", "models"}],
     [stages |-> {"objects"}, jobs |-> 3, changes |-> {"settings", "frames"}],
     [stages |-> {"asr", "asr-index"}, jobs |-> 3, changes |-> {"videos"}],
     [stages |-> {"asr"}, jobs |-> 3, changes |-> {"settings"}],
     [stages |-> {"visual-index"}, jobs |-> 3, changes |-> {"settings", "frames"}],
     [stages |-> {"caption", "context", "context-index", "text-index"}, jobs |-> 4,
      changes |-> {"settings", "frames"}],
     [stages |-> {"caption", "ocr", "context", "bm25"}, jobs |-> 4, changes |-> {}],
     [stages |-> {"caption", "objects", "context"}, jobs |-> 3, changes |-> {}],
     [stages |-> {"asr", "bm25"}, jobs |-> 3, changes |-> {"frames"}]}
=============================================================================
